---- MODULE Spec2Model ----
(***************************************************************************)
(* ZongoDB: the typed validation / path-addressing facade in front of a    *)
(* MongoDB collection.  The model covers the query/update verifier, the    *)
(* set/unset derivation and the read-modify-write "transform" engine in    *)
(* its two revisions:                                                      *)
(*   - src/src/database.ts (second class, lines 837-1639): transform with  *)
(*     optimistic locking on the whole document (maxRetries);              *)
(*   - src/README.md (class at lines 222-1244): transformOne with a        *)
(*     transaction when the deployment supports it, transformOneOptimistic *)
(*     otherwise.                                                          *)
(* One collection with the schema                                          *)
(*     z.object({ a: z.number(), b: z.number().optional() })               *)
(* is modelled; callers are the processes of Procs, each issuing one call. *)
(* Every storage call (findOne, findOneAndUpdate, updateOne, ...) is one   *)
(* atomic step: these are the suspension points of the async handlers.     *)
(***************************************************************************)
EXTENDS Integers, Sequences, FiniteSets, TLC

\* ------------------------------------------------------------------ bounds
NumProcs == 2            \* concurrent callers
NumDocs == 2             \* document slots of the collection
MaxRetriesInput == 1     \* largest opts.maxRetries a caller passes explicitly
MaxStored == 2           \* no transformOne of the first class starts on a number this large

Procs == 1..NumProcs
DocIds == 1..NumDocs

\* ------------------------------------------------------------------ values
\* JavaScript values are encoded as integers: n >= 0 is the number n.
Undefined == -1          \* the value undefined (explicitly assigned)
Absent == -2             \* the key is not present in the object
Bad == -3                \* a string where the schema wants a number
OpExists == -4           \* an operator object, { $exists: true }

DefaultMaxRetries == 3   \* opts?.maxRetries ?? 3

ObjKeys == {"a", "b", "zzz"}
DocKeys == {"_id"} \cup ObjKeys
KeyOrder == <<"a", "b", "zzz">>
DocKeyOrder == <<"_id", "a", "b", "zzz">>

\* A stored document; NoDoc is an empty slot.
NoDoc == [k \in DocKeys |-> Absent]
EmptyObj == [k \in ObjKeys |-> Absent]
InitialDoc(id) == [k \in DocKeys |-> IF k = "_id" THEN id ELSE IF k = "a" THEN 0 ELSE Absent]

\* ------------------------------------------------------------------ schema
\* this.flattenedSchemas[collection] for the modelled schema.
flattenedSchemas == [a |-> "ZodNumber", b |-> "ZodOptional"]

\* flattenedSchemas[collection] is created as the object literal {}: a lookup
\* of a key it does not own falls through to Object.prototype.
ObjectPrototypeKeys == {"constructor"}

\* getSchemaAtPath: "throw" stands for the Error `Path "..." does not exist`.
getSchemaAtPath(path) ==
    IF path \in DOMAIN flattenedSchemas THEN flattenedSchemas[path]
    ELSE IF path \in ObjectPrototypeKeys THEN "Function"
    ELSE "throw"

\* schema.parseAsync(value): "none" when the value is accepted.
parseAsync(schema, value) ==
    CASE schema = "ZodNumber" -> IF value >= 0 THEN "none" ELSE "ZodError"
      [] schema = "ZodOptional" -> IF value >= 0 \/ value = Undefined THEN "none" ELSE "ZodError"
      [] OTHER -> "TypeError"

\* The error raised for one path/value pair, "none" when there is none.
VerifyPathValue(path, value) ==
    IF getSchemaAtPath(path) = "throw" THEN "UnknownPath"
    ELSE parseAsync(getSchemaAtPath(path), value)

\* The first error of a sequence of per-entry errors (the code throws at the
\* first failing entry of its for loop).
RECURSIVE FirstError(_)
FirstError(errs) ==
    IF errs = <<>> THEN "none"
    ELSE IF Head(errs) # "none" THEN Head(errs)
    ELSE FirstError(Tail(errs))

\* A check of the path alone.
VerifyQueryEntry_PathOnly(e) ==
    IF e.k = "_id" THEN "none"
    ELSE IF getSchemaAtPath(e.k) = "throw" THEN "UnknownPath"
    ELSE "none"

\* getVerifiedQuery: a query is a sequence of [k, v] entries (Object.entries).
VerifyQueryEntry(e) ==
    IF e.k = "_id" THEN "none"
    ELSE IF getSchemaAtPath(e.k) = "throw" THEN "UnknownPath"
    ELSE IF e.v # OpExists THEN parseAsync(getSchemaAtPath(e.k), e.v)
    ELSE "none"

\* verifiedQuery[path]: the value itself for _id and for an object, the
\* output of parseAsync otherwise (the modelled schemas return the number
\* they accept).
VerifiedEntry(e) ==
    IF e.k = "_id" \/ e.v = OpExists THEN e
    ELSE [k |-> e.k, v |-> IF parseAsync(getSchemaAtPath(e.k), e.v) = "none" THEN e.v ELSE Undefined]

getVerifiedQuery(query) ==
    [err |-> FirstError([i \in 1..Len(query) |-> VerifyQueryEntry(query[i])]),
     q |-> [i \in 1..Len(query) |-> VerifiedEntry(query[i])]]

\* ------------------------------------------------------------------ set/unset
\* ZongoUtil.getSetAndUnset on an object without nested objects.
getSetAndUnset(obj) ==
    [set |-> [k \in ObjKeys |-> IF obj[k] = Undefined THEN Absent ELSE obj[k]],
     unset |-> {k \in ObjKeys : obj[k] = Undefined}]

SetErrors(su) ==
    [i \in 1..Len(KeyOrder) |->
        IF su.set[KeyOrder[i]] = Absent THEN "none"
        ELSE VerifyPathValue(KeyOrder[i], su.set[KeyOrder[i]])]

UnsetErrors(su) ==
    [i \in 1..Len(KeyOrder) |->
        IF KeyOrder[i] \notin su.unset THEN "none"
        ELSE VerifyPathValue(KeyOrder[i], Undefined)]

\* A getSafeSetAndUnset that drops the entries that fail instead of throwing.
getSafeSetAndUnset_SkipInvalid(data) ==
    LET su == getSetAndUnset(data)
    IN  [err |-> "none",
         set |-> [k \in ObjKeys |->
                    IF su.set[k] # Absent /\ VerifyPathValue(k, su.set[k]) = "none"
                    THEN su.set[k] ELSE Absent],
         unset |-> {k \in su.unset : VerifyPathValue(k, Undefined) = "none"}]

getSafeSetAndUnset(data) ==
    LET su == getSetAndUnset(data)
    IN  [err |-> FirstError(SetErrors(su) \o UnsetErrors(su)),
         set |-> su.set,
         unset |-> su.unset]

NoUpdate == [err |-> "none", set |-> EmptyObj, unset |-> {}]

\* ------------------------------------------------------------------ storage
\* A filter is a sequence of [k, v] entries; every entry must hold.  Keys the
\* filter does not name are not constrained.
MatchesEntry(doc, e) ==
    /\ e.k \in DocKeys
    /\ IF e.v = OpExists THEN doc[e.k] # Absent ELSE doc[e.k] = e.v

Matches(doc, filter) ==
    /\ doc["_id"] # Absent
    /\ \A i \in 1..Len(filter) : MatchesEntry(doc, filter[i])

\* The first document of the collection that matches, 0 when none does.
FindFirst(st, filter) ==
    IF \E id \in DocIds : Matches(st[id], filter)
    THEN CHOOSE id \in DocIds :
            /\ Matches(st[id], filter)
            /\ \A other \in DocIds : Matches(st[other], filter) => id <= other
    ELSE 0

\* The document after { $set, $unset }.
ApplyUpdate(doc, su) ==
    [k \in DocKeys |->
        IF k \in su.unset THEN Absent
        ELSE IF k \in ObjKeys /\ su.set[k] # Absent THEN su.set[k]
        ELSE doc[k]]

\* { ...document }: one equality entry per key the document has.
RECURSIVE EntriesOf(_, _)
EntriesOf(doc, keys) ==
    IF keys = <<>> THEN <<>>
    ELSE IF doc[Head(keys)] = Absent THEN EntriesOf(doc, Tail(keys))
    ELSE <<[k |-> Head(keys), v |-> doc[Head(keys)]]>> \o EntriesOf(doc, Tail(keys))

IdFilter(id) == <<[k |-> "_id", v |-> id]>>

\* schemas[collection].parseAsync(doc) of a stored document without _id: the
\* object schema keeps the declared keys and strips the others.
ParseDocument(doc) ==
    [k \in ObjKeys |-> IF k \in DOMAIN flattenedSchemas THEN doc[k] ELSE Absent]

\* ------------------------------------------------------------------ inputs
QById == <<[k |-> "_id", v |-> 1]>>
QByA == <<[k |-> "a", v |-> 0]>>
QUnknown == <<[k |-> "zzz", v |-> 1]>>
QUnknownOp == <<[k |-> "zzz", v |-> OpExists]>>
QProto == <<[k |-> "constructor", v |-> OpExists]>>
QBadValue == <<[k |-> "a", v |-> Bad]>>
QExistsA == <<[k |-> "a", v |-> OpExists]>>
QOpThenBad == <<[k |-> "a", v |-> OpExists], [k |-> "b", v |-> Bad]>>
QIdBad == <<[k |-> "_id", v |-> Bad]>>
Queries == {QById, QByA, QUnknown, QUnknownOp, QProto, QBadValue, QExistsA, QOpThenBad, QIdBad}
NoQuery == <<>>

\* Update objects of updateOne / updateMany.
USetA == [EmptyObj EXCEPT !["a"] = 1]
USetB == [EmptyObj EXCEPT !["b"] = 1]
UUnsetB == [EmptyObj EXCEPT !["b"] = Undefined]
UUnsetA == [EmptyObj EXCEPT !["a"] = Undefined]
UBadA == [EmptyObj EXCEPT !["a"] = Bad, !["b"] = 1]
UUnknown == [EmptyObj EXCEPT !["a"] = 1, !["zzz"] = 1]
Updates == {USetA, USetB, UUnsetB, UUnsetA, UBadA, UUnknown}

\* Index specifications of createIndex: the set of their keys.
Indexes == {{"a"}, {"zzz"}, {"constructor"}, {"a", "zzz"}}

\* opts.maxRetries: a number, or not given.
RetryInputs == (0..MaxRetriesInput) \cup {Undefined}
MaxRetriesOf(given) == IF given = Undefined THEN DefaultMaxRetries ELSE given

\* Whole-document transformation functions of the database.ts revision.
Transformations == {"incA", "setB", "unsetB", "unsetA", "badA", "addUnknown"}
applyTransformation(t, previous) ==
    CASE t = "incA" -> [previous EXCEPT !["a"] = @ + 1]
      [] t = "setB" -> [previous EXCEPT !["b"] = 1]
      [] t = "unsetB" -> [previous EXCEPT !["b"] = Undefined]
      [] t = "unsetA" -> [previous EXCEPT !["a"] = Undefined]
      [] t = "badA" -> [previous EXCEPT !["a"] = Bad, !["b"] = 1]
      [] OTHER -> [previous EXCEPT !["zzz"] = 1]

\* ------------------------------------------------------------------ the set/unset splitter on nested objects
\* A JavaScript value is a tree: a function from key paths to value codes,
\* <<>> being the value itself.  A plain object has IsObject at <<>> and its
\* properties below; a scalar has its code at <<>> and nothing below.
IsObject == -5           \* the value at this path is a plain object

\* The keys of the update objects, in insertion order.  "x.y" is a key that
\* is itself a dotted path, as update objects (records of paths) may have.
TopKeys == <<"x", "y", "x.y">>
SubKeys == {"x", "y"}
SplitPaths ==
    {<<>>} \cup {<<TopKeys[i]>> : i \in 1..Len(TopKeys)}
           \cup {<<k, n>> : k \in SubKeys, n \in SubKeys}

At(v, path) == IF path \in SplitPaths THEN v[path] ELSE Absent
Scalar(s) == [p \in SplitPaths |-> IF p = <<>> THEN s ELSE Absent]
EmptyTree == Scalar(IsObject)
\* obj[key]
Sub(v, key) == [p \in SplitPaths |-> At(v, <<key>> \o p)]
\* obj after obj[key] = w (w absent: after delete obj[key])
With(v, key, w) ==
    [p \in SplitPaths |-> IF p # <<>> /\ Head(p) = key THEN At(w, Tail(p)) ELSE v[p]]
\* Object.keys(v) / for (const key in v)
KeysOf(v) ==
    SelectSeq(TopKeys, LAMBDA k : v[<<>>] = IsObject /\ At(v, <<k>>) # Absent)
KeySet(v) == {KeysOf(v)[i] : i \in 1..Len(KeysOf(v))}

\* [...currentPath, key].join("."), currentPath given joined.
Join(currentPath, key) == IF currentPath = "" THEN key ELSE currentPath \o "." \o key

\* ZongoUtil.getSetAndUnset(obj, currentPath) of util.ts on a nested object.
\* The inner loop deletes every undefined property of obj and records it
\* in unset; the outer loop calls getSetAndUnset on every property that is
\* a plain object and drops what the call returns; $set is obj itself.
RECURSIVE getSetAndUnsetAt(_, _)
RECURSIVE recurseInto(_, _, _)
recurseInto(obj, keys, currentPath) ==
    IF keys = <<>> THEN obj
    ELSE LET key == Head(keys)
             child == Sub(obj, key)
         IN  recurseInto(
                IF child[<<>>] = IsObject
                THEN With(obj, key, getSetAndUnsetAt(child, Join(currentPath, key)).set)
                ELSE obj,
                Tail(keys), currentPath)

getSetAndUnsetAt(obj, currentPath) ==
    LET undefinedKeys == {k \in KeySet(obj) : obj[<<k>>] = Undefined}
        deleted == [p \in SplitPaths |->
                        IF p # <<>> /\ Head(p) \in undefinedKeys THEN Absent ELSE obj[p]]
    IN  [set |-> recurseInto(deleted, KeysOf(deleted), currentPath),
         unset |-> {Join(currentPath, k) : k \in undefinedKeys}]

\* $set[key] = value on a map from key strings to values.
Put(f, key, value) == [s \in DOMAIN f \cup {key} |-> IF s = key THEN value ELSE f[s]]
\* for (const nestedKey in nested) $set[`${key}.${nestedKey}`] = nested[nestedKey]
PutAll(f, key, nested) ==
    [s \in DOMAIN f \cup {Join(key, nk) : nk \in DOMAIN nested} |->
        IF \E nk \in DOMAIN nested : s = Join(key, nk)
        THEN nested[CHOOSE nk \in DOMAIN nested : s = Join(key, nk)]
        ELSE f[s]]

\* ZongoUtil.getSetAndUnsetPaths(obj) of the other revision of util.ts.
RECURSIVE getSetAndUnsetPaths(_)
RECURSIVE splitEntries(_, _, _)
splitEntries(obj, keys, acc) ==
    IF keys = <<>> THEN acc
    ELSE LET key == Head(keys)
             value == Sub(obj, key)
             nestedResult == getSetAndUnsetPaths(value)
             next ==
                IF value[<<>>] = Undefined THEN [acc EXCEPT !.unset = @ \cup {key}]
                ELSE IF value[<<>>] = IsObject /\ KeysOf(value) # <<>>
                THEN IF DOMAIN nestedResult.set # {} \/ nestedResult.unset # {}
                     THEN [set |-> PutAll(acc.set, key, nestedResult.set),
                           unset |-> acc.unset \cup {Join(key, nk) : nk \in nestedResult.unset}]
                     ELSE [acc EXCEPT !.set = Put(@, key, value)]
                ELSE [acc EXCEPT !.set = Put(@, key, value)]
         IN  splitEntries(obj, Tail(keys), next)

getSetAndUnsetPaths(obj) == splitEntries(obj, KeysOf(obj), [set |-> <<>>, unset |-> {}])

\* The update objects the splitter is given: x and y are absent, undefined,
\* a number, or an object with x and y absent, undefined or a number.
LeafCodes == {Absent, Undefined, 1}
PropertyValues ==
    {Scalar(c) : c \in LeafCodes}
        \cup {With(With(EmptyTree, "x", Scalar(a)), "y", Scalar(b)) : a, b \in LeafCodes}
SplitInputs ==
    {With(With(With(EmptyTree, "x", vx), "y", vy), "x.y", Scalar(d)) :
        vx \in PropertyValues, vy \in PropertyValues, d \in LeafCodes}

\* Documents of the nested collection: { y: 8 } and an empty slot.
NoTree == Scalar(Absent)
WithoutX == With(EmptyTree, "y", Scalar(8))

NoSplit == [fn |-> "none", input |-> EmptyTree, set |-> <<>>, unset |-> {}]

\* ------------------------------------------------------------------ zod schemas and the constructor
\* A zod schema is a node [type, kids]: type is its _def.typeName, kids the
\* schemas below it with the key each is reached by: the fields of an object's
\* shape, the items of a tuple under "0", "1", ..., the options of a union,
\* the inner schema of a wrapper, the element of an array, the value schema
\* of a record.
Leaf(type) == [type |-> type, kids |-> <<>>]
Kid(key, schema) == [key |-> key, schema |-> schema]
zObject(shape) == [type |-> "ZodObject", kids |-> shape]
zTuple(items) ==
    [type |-> "ZodTuple",
     kids |-> [i \in 1..Len(items) |-> Kid(IF i = 1 THEN "0" ELSE "1", items[i])]]
zUnion(options) ==
    [type |-> "ZodUnion", kids |-> [i \in 1..Len(options) |-> Kid("", options[i])]]
Wrapped(type, inner) == [type |-> type, kids |-> <<Kid("", inner)>>]
Options(schema) == [i \in 1..Len(schema.kids) |-> schema.kids[i].schema]
InnerType(schema) == schema.kids[1].schema

\* ZongoUtil.unwrapSchema: the schema inside ZodOptional, ZodNullable, ZodEffects.
RECURSIVE unwrapSchema(_)
unwrapSchema(schema) ==
    IF schema.type \in {"ZodOptional", "ZodNullable", "ZodEffects"}
    THEN unwrapSchema(InnerType(schema))
    ELSE schema

isSchemaOfType(schema, type) == schema.type = type

\* `${path}.${key}` below a path, the key itself at the root.
PathBelow(path, key) == IF path # "" THEN path \o "." \o key ELSE key

\* The entries createSchemaPathMap pushes for the schemas below `unwrapped`,
\* in the order it pushes them.
Pushed(unwrapped, path) ==
    IF unwrapped.type \in {"ZodObject", "ZodTuple"}
    THEN [i \in 1..Len(unwrapped.kids) |->
            [schema |-> unwrapped.kids[i].schema, path |-> PathBelow(path, unwrapped.kids[i].key)]]
    ELSE IF unwrapped.type \in {"ZodDiscriminatedUnion", "ZodUnion"}
    THEN [i \in 1..Len(unwrapped.kids) |-> [schema |-> unwrapped.kids[i].schema, path |-> path]]
    ELSE <<>>

\* The schema stored at a path that already has one and is not a
\* native-union path.
mergeAtPath(existing, schema) ==
    IF isSchemaOfType(existing, "ZodUnion")
    THEN zUnion(Options(existing) \o <<schema>>)
    ELSE zUnion(<<existing, schema>>)

\* The while loop of createSchemaPathMap for one collection: stack.pop()
\* takes the last entry.
RECURSIVE traverse(_, _, _)
traverse(stack, pathMap, nativeUnionPaths) ==
    IF stack = <<>> THEN pathMap
    ELSE LET top == stack[Len(stack)]
             rest == SubSeq(stack, 1, Len(stack) - 1)
             unwrapped == unwrapSchema(top.schema)
             stored ==
                IF top.path = "" THEN pathMap
                ELSE IF top.path \notin DOMAIN pathMap THEN Put(pathMap, top.path, top.schema)
                ELSE IF top.path \notin nativeUnionPaths
                THEN Put(pathMap, top.path, mergeAtPath(pathMap[top.path], top.schema))
                ELSE pathMap
             unions ==
                IF unwrapped.type \in {"ZodDiscriminatedUnion", "ZodUnion"}
                THEN nativeUnionPaths \cup {top.path} ELSE nativeUnionPaths
         IN  traverse(rest \o Pushed(unwrapped, top.path), stored, unions)

createSchemaPathMap(schemas) ==
    [c \in 1..Len(schemas) |-> traverse(<<[schema |-> schemas[c], path |-> ""]>>, <<>>, {})]

\* A verification that does not look inside a schema.
verifySchemaAndCheckIfUndefinedCanExist_Shallow(schema) ==
    [throws |-> schema.type \in {"ZodSet", "ZodMap", "ZodIntersection"},
     undefinedCanExist |-> schema.type \in {"ZodUndefined", "ZodOptional", "ZodDefault"}]

\* ZongoUtil.verifySchemaAndCheckIfUndefinedCanExist: whether it throws, and
\* what it returns when it does not.  A literal has the type name ZodLiteral;
\* z.literal(<bigint>) is written "ZodLiteral(bigint)" and z.literal(undefined)
\* "ZodLiteral(undefined)" here.  The first isZodLiteral branch returns false
\* for every literal that is not a bigint; the second one, which compares
\* the value with undefined, is never reached.
RECURSIVE verifySchemaAndCheckIfUndefinedCanExist(_)
verifySchemaAndCheckIfUndefinedCanExist(schema) ==
    LET below == [i \in 1..Len(schema.kids) |->
                    verifySchemaAndCheckIfUndefinedCanExist(schema.kids[i].schema)]
        anyThrows == \E i \in 1..Len(schema.kids) : below[i].throws
        some == \E i \in 1..Len(schema.kids) : below[i].undefinedCanExist
    IN  CASE schema.type = "ZodUndefined" -> [throws |-> FALSE, undefinedCanExist |-> TRUE]
          [] schema.type \in {"ZodSet", "ZodMap", "ZodIntersection", "ZodLiteral(bigint)"} ->
                [throws |-> TRUE, undefinedCanExist |-> FALSE]
          [] schema.type \in {"ZodLiteral", "ZodLiteral(undefined)", "ZodBoolean", "ZodDate", "ZodEnum", "ZodNativeEnum",
                              "ZodNaN", "ZodNumber", "ZodString"} ->
                [throws |-> FALSE, undefinedCanExist |-> FALSE]
          [] schema.type \in {"ZodOptional", "ZodDefault"} ->
                [throws |-> anyThrows, undefinedCanExist |-> TRUE]
          [] schema.type \in {"ZodArray", "ZodUnion", "ZodDiscriminatedUnion", "ZodNullable",
                              "ZodEffects", "ZodObject", "ZodRecord", "ZodTuple"} ->
                [throws |-> anyThrows, undefinedCanExist |-> some]
          [] OTHER -> [throws |-> TRUE, undefinedCanExist |-> FALSE]

\* A check that finds no _id.
declaresId_Never(schema) == FALSE

\* "_id" in schema.shape
declaresId(schema) == \E i \in 1..Len(schema.kids) : schema.kids[i].key = "_id"

NotConstructed ==
    [by |-> "none", state |-> "none", error |-> "none", created |-> {},
     flattenedSchemas |-> <<>>, collectionsWithOptionalFields |-> {}]

\* The constructor of the second class of database.ts, which is synchronous:
\* the facade it returns, or the error it throws and what it had created by then.
constructor(schemas) ==
    LET made == [NotConstructed EXCEPT !.by = "database.ts"]
        flat == [made EXCEPT !.flattenedSchemas = createSchemaPathMap(schemas)]
        connected == [flat EXCEPT !.created = {"client", "db", "collections"}]
        verified == [c \in 1..Len(schemas) |-> verifySchemaAndCheckIfUndefinedCanExist(schemas[c])]
    IN  IF \E c \in 1..Len(schemas) : declaresId(schemas[c])
        THEN [made EXCEPT !.state = "threw", !.error = "ProtectedIdField"]
        ELSE IF \E c \in 1..Len(schemas) : verified[c].throws
        THEN [connected EXCEPT !.state = "threw", !.error = "NotSupported"]
        ELSE [connected EXCEPT !.state = "constructed",
                               !.collectionsWithOptionalFields =
                                    {c \in 1..Len(schemas) : verified[c].undefinedCanExist}]

\* The constructor of the part_007 revision: the _id check, then the client,
\* the database handle and the collections.
constructorWithoutPathMap(schemas) ==
    LET made == [NotConstructed EXCEPT !.by = "part_007"]
    IN  IF \E c \in 1..Len(schemas) : declaresId(schemas[c])
        THEN [made EXCEPT !.state = "threw", !.error = "ProtectedIdField"]
        ELSE [made EXCEPT !.state = "constructed", !.created = {"client", "db", "collections"}]

\* The modelled schema, z.object({ a: z.number(), b: z.number().optional() }).
ModelledSchema ==
    zObject(<<Kid("a", Leaf("ZodNumber")), Kid("b", Wrapped("ZodOptional", Leaf("ZodNumber")))>>)

\* The schemas a database is constructed with.
ZString == Leaf("ZodString")
ZNumber == Leaf("ZodNumber")
ZBoolean == Leaf("ZodBoolean")
Unsupported ==
    {Leaf(t) : t \in {"ZodMap", "ZodSet", "ZodIntersection", "ZodFunction", "ZodVoid", "ZodBigInt"}}

\* Schemas whose values include undefined: z.undefined(), z.literal(undefined),
\* z.number().default(0).
UndefinedBearing ==
    {Leaf("ZodUndefined"), Leaf("ZodLiteral(undefined)"), Wrapped("ZodDefault", ZNumber)}

\* One schema nested in another.
ContainerNames ==
    {"none", "ZodOptional", "ZodDefault", "ZodNullable", "ZodEffects", "ZodArray", "ZodRecord",
     "ZodUnion", "ZodObject", "ZodTuple"}
Nest(container, schema) ==
    CASE container = "none" -> schema
      [] container = "ZodUnion" -> zUnion(<<ZString, schema>>)
      [] container = "ZodObject" -> zObject(<<Kid("k", schema)>>)
      [] container = "ZodTuple" -> zTuple(<<ZString, schema>>)
      [] OTHER -> Wrapped(container, schema)

DepthDocs ==
    {zObject(<<Kid("f", Nest(c1, Nest(c2, x)))>>) :
        c1 \in ContainerNames, c2 \in ContainerNames,
        x \in Unsupported \cup UndefinedBearing \cup {ZString, Wrapped("ZodOptional", ZNumber)}}

\* A field u that is a union of objects, or of tuples, each with its own
\* schema at u.k, or at u.0.
KSchemas == {ZString, ZNumber, zUnion(<<ZString, ZBoolean>>), Wrapped("ZodOptional", ZNumber)}
UnionDocs ==
    {zObject(<<Kid("u", zUnion(<<zObject(<<Kid("k", x)>>), zObject(<<Kid("k", y)>>)>>))>>) :
        x \in KSchemas, y \in KSchemas}
    \cup {zObject(<<Kid("u", zUnion(<<zObject(<<Kid("k", x)>>), zObject(<<Kid("k", y)>>),
                                      zObject(<<Kid("k", z)>>)>>))>>) :
        x \in KSchemas, y \in KSchemas, z \in KSchemas}
    \cup {zObject(<<Kid("u", zUnion(<<zTuple(<<x>>), zTuple(<<y>>)>>))>>) :
        x \in KSchemas, y \in KSchemas}

\* Schemas with a field named _id, at the top and below it.
IdFirst == zObject(<<Kid("_id", ZString), Kid("a", ZNumber)>>)
IdLast == zObject(<<Kid("a", ZNumber), Kid("_id", ZString)>>)
IdNested == zObject(<<Kid("f", zObject(<<Kid("_id", ZString)>>))>>)
IdDocs == {IdFirst, IdLast, IdNested}

PairDocs == {ModelledSchema, IdFirst, IdNested, zObject(<<Kid("f", Leaf("ZodMap"))>>)}
Registered ==
    {<<d>> : d \in DepthDocs \cup UnionDocs \cup IdDocs \cup {ModelledSchema}}
    \cup {<<d, e>> : d \in PairDocs, e \in PairDocs}

\* ------------------------------------------------------------------ state
VARIABLES
    store,          \* the collection: DocIds -> document
    pc,             \* where each caller's handler is suspended
    op,             \* the call a process made: its arguments
    attempt,        \* transform's local `attempt`
    document,       \* the document an attempt read; for a find, the one its parse rejected
    setAndUnset,    \* the update an attempt computed
    result,         \* what the call returned or threw
    calls,          \* the storage calls the handler has issued so far
    caught,         \* the error the catch block of transformOneOptimistic last caught
    transactionsSupported,  \* the facade's cached flag: "null", "true", "false"
    replicaSet,     \* the deployment: TRUE when it supports transactions
    snapshot,       \* the collection as an open transaction reads it
    stale,          \* documents written by others since a transaction's snapshot
    lock,           \* the transaction holding an uncommitted write of a document, or 0
    probes,         \* how many times the transaction-capability probe was started
    documentIds,    \* transformMany's local documentIds: the identities it collected
    outcomes,       \* what transform returned or threw for each identity processed so far
    obj,            \* the object a caller hands to the splitter
    split,          \* the splitter called, the object as it was given, and what was returned
    schemas,        \* the flattened schema of the collection the database was constructed with
    registered,     \* the constructor's argument: the schema of each collection
    facade,         \* what the constructor returned or threw, and what it had created
    callerQuery,    \* the query object a caller of update() passed, as the call left it
    sentFilter,     \* the filter update() handed to the collection
    sentUpdate,     \* the $set update() handed to the collection
    nested,         \* a collection of documents with a nested object
    sessions,       \* per caller, the client sessions it started: where, and how often ended
    held            \* per caller, the sessions its handler holds in local constants, innermost last

vars ==
    <<store, pc, op, attempt, document, setAndUnset, result, calls, caught,
      transactionsSupported, replicaSet, snapshot, stale, lock, probes,
      documentIds, outcomes, obj, split, schemas, registered, facade,
      callerQuery, sentFilter, sentUpdate, nested, sessions, held>>
sessVars == <<sessions, held>>
batchVars == <<documentIds, outcomes>>
splitVars == <<obj, split>>
ctorVars == <<registered, facade>>
nestVars == <<callerQuery, sentFilter, sentUpdate, nested>>
txVars == <<transactionsSupported, replicaSet, snapshot, lock, probes>>

NoOp ==
    [kind |-> "none", query |-> NoQuery, t |-> "none", maxRetries |-> 0,
     nonAtomic |-> FALSE, update |-> EmptyObj, upsert |-> FALSE, index |-> {},
     transformations |-> <<>>]

Constructed ==
    /\ registered = <<ModelledSchema>>
    /\ facade = constructor(registered)

\* The facade after construction over a collection that holds st.
InitOver(deployment, st) ==
    /\ replicaSet = deployment
    /\ transactionsSupported = "null"
    /\ probes = 0
    /\ documentIds = [p \in Procs |-> <<>>]
    /\ outcomes = [p \in Procs |-> <<>>]
    /\ caught = [p \in Procs |-> "none"]
    /\ snapshot = [p \in Procs |-> [id \in DocIds |-> NoDoc]]
    /\ stale = [p \in Procs |-> {}]
    /\ lock = [id \in DocIds |-> 0]
    /\ store = st
    /\ callerQuery = [p \in Procs |-> <<>>]
    /\ sentFilter = [p \in Procs |-> <<>>]
    /\ sentUpdate = [p \in Procs |-> <<>>]
    /\ nested = [id \in DocIds |-> IF id = 1 THEN WithoutX ELSE NoTree]
    /\ sessions = [p \in Procs |-> <<>>]
    /\ held = [p \in Procs |-> <<>>]
    /\ pc = [p \in Procs |-> "idle"]
    /\ op = [p \in Procs |-> NoOp]
    /\ attempt = [p \in Procs |-> 0]
    /\ document = [p \in Procs |-> NoDoc]
    /\ setAndUnset = [p \in Procs |-> NoUpdate]
    /\ result = [p \in Procs |-> "none"]
    /\ calls = [p \in Procs |-> {}]

InitFacade(deployment) ==
    InitOver(deployment, [id \in DocIds |-> IF id = 1 THEN InitialDoc(1) ELSE NoDoc])

InitOn(deployment) ==
    /\ InitFacade(deployment)
    /\ Constructed
    /\ schemas = flattenedSchemas
    /\ obj = EmptyTree
    /\ split = NoSplit

Init == InitOn(FALSE)

\* A transaction is open from its first read to its commit or abort.
InTransaction(p) == pc[p] \in {"txRefetch", "txUpdateOne", "txCommit"}

\* A write by p takes effect: the collection becomes newStore.  A write
\* outside a transaction waits for the transaction that holds an uncommitted
\* write of the same document; every open transaction of another caller
\* learns that the documents written are no longer those of its snapshot.
Written(newStore) == {id \in DocIds : newStore[id] # store[id]}

WriteEffect(p, newStore) ==
    /\ \A id \in Written(newStore) : lock[id] \in {0, p}
    /\ store' = newStore
    /\ stale' = [q \in Procs |->
                    IF q # p /\ InTransaction(q) THEN stale[q] \cup Written(newStore)
                    ELSE stale[q]]

\* ------------------------------------------------------------------ mongodb: client sessions
\* The sessions of the client as a handler sees them: log[p] lists the
\* sessions caller p started, held[p] the ones its handler still has in
\* scope, each named by its owner and its place in the owner's log.
Sess == [log |-> sessions, held |-> held]

SetSessions(S) ==
    /\ sessions' = S.log
    /\ held' = S.held

\* const session = this.client.startSession()
startSession(S, p, site) ==
    [log |-> [S.log EXCEPT ![p] = Append(@, [site |-> site, ended |-> 0, usedBy |-> {}])],
     held |-> [S.held EXCEPT ![p] = Append(@, <<p, Len(S.log[p]) + 1>>)]]

Innermost(S, p) == S.held[p][Len(S.held[p])]

\* session.withTransaction(...) or an operation given { session }.
useSession(S, p) ==
    LET s == Innermost(S, p)
    IN  [S EXCEPT !.log[s[1]][s[2]].usedBy = @ \cup {p}]

\* A finally block that lets its session go out of scope without ending it.
endSession_Leaked(S, p) ==
    [S EXCEPT !.held[p] = SubSeq(@, 1, Len(@) - 1)]

\* finally { await session.endSession() }: the block that started the
\* session is left.
endSession(S, p) ==
    LET s == Innermost(S, p)
    IN  [S EXCEPT !.log[s[1]][s[2]].ended = @ + 1,
                  !.held[p] = SubSeq(@, 1, Len(@) - 1)]

\* An error thrown inside the try blocks passes through every finally block
\* on its way out, innermost first.
RECURSIVE unwind(_, _)
unwind(S, p) ==
    IF S.held[p] = <<>> THEN S ELSE unwind(endSession(S, p), p)

Finish(p, r) ==
    /\ pc' = [pc EXCEPT ![p] = "done"]
    /\ result' = [result EXCEPT ![p] = r]

\* ------------------------------------------------------------------ database.ts: transform
\* transform is called by transformOne and, per identity, by transformMany.
TransformKinds == {"transform", "transformMany"}

\* transformOne(collection, query, transformation, opts) -> transform(...)
transformOne(p) ==
    /\ pc[p] = "idle"
    /\ op[p].kind = "none"
    /\ \E q \in {QById, QByA, QUnknown}, t \in Transformations,
          r \in RetryInputs, na \in BOOLEAN :
        op' = [op EXCEPT ![p] = [NoOp EXCEPT !.kind = "transform", !.query = q, !.t = t,
                                      !.maxRetries = MaxRetriesOf(r), !.nonAtomic = na]]
    /\ pc' = [pc EXCEPT ![p] = "findOne"]
    /\ UNCHANGED <<sessVars, nestVars, ctorVars, schemas, splitVars, batchVars, store, attempt, document, setAndUnset, result, calls, caught, stale, txVars>>

\* An updateQuery that forgets the _id of the document it read.
updateQuery_NoId(nonAtomic, doc) ==
    IF nonAtomic THEN IdFilter(doc["_id"]) ELSE EntriesOf([doc EXCEPT !["_id"] = 0], DocKeyOrder)

\* updateQuery: { _id } with nonAtomic, the whole document read otherwise.
updateQuery(nonAtomic, doc) ==
    IF nonAtomic THEN IdFilter(doc["_id"]) ELSE EntriesOf(doc, DocKeyOrder)

\* The head of the while loop up to the conditional write: getVerifiedQuery,
\* findOne, parse, transformation, getSafeSetAndUnset.
transformLocate(p) ==
    /\ pc[p] = "findOne"
    /\ op[p].kind \in TransformKinds
    /\ LET vq == getVerifiedQuery(op[p].query)
           id == FindFirst(store, vq.q)
           su == getSafeSetAndUnset(applyTransformation(op[p].t, ParseDocument(store[id])))
       IN  IF vq.err # "none"
           THEN /\ Finish(p, vq.err)
                /\ UNCHANGED <<document, setAndUnset, calls>>
           ELSE /\ calls' = [calls EXCEPT ![p] = @ \cup {"findOne"}]
                /\ IF id = 0
                   THEN /\ Finish(p, "null")
                        /\ UNCHANGED <<document, setAndUnset>>
                   ELSE /\ document' = [document EXCEPT ![p] = store[id]]
                        /\ IF su.err # "none"
                           THEN /\ Finish(p, su.err)
                                /\ UNCHANGED setAndUnset
                           ELSE /\ setAndUnset' = [setAndUnset EXCEPT ![p] = su]
                                /\ pc' = [pc EXCEPT ![p] = "findOneAndUpdate"]
                                /\ UNCHANGED result
    /\ UNCHANGED <<sessVars, nestVars, ctorVars, schemas, splitVars, batchVars, store, op, attempt, caught, stale, txVars>>

\* A loop that gives up one attempt early.
attemptAllowed_Strict(att, maxRetries) == att < maxRetries

\* A loop that goes on whatever the number of failed attempts.
attemptAllowed_Always(att, maxRetries) == att >= 0

\* while (attempt <= maxRetries): another attempt after `attempt` failures?
attemptAllowed(att, maxRetries) == att <= maxRetries

\* findOneAndUpdate(updateQuery, setAndUnset) and what follows it.
transformWrite(p) ==
    /\ pc[p] = "findOneAndUpdate"
    /\ op[p].kind \in TransformKinds
    /\ calls' = [calls EXCEPT ![p] = @ \cup {"findOneAndUpdate"}]
    /\ LET id == FindFirst(store, updateQuery(op[p].nonAtomic, document[p]))
       IN  IF id # 0
           THEN /\ WriteEffect(p, [store EXCEPT ![id] = ApplyUpdate(@, setAndUnset[p])])
                /\ Finish(p, "ok")
                /\ UNCHANGED attempt
           ELSE /\ attempt' = [attempt EXCEPT ![p] = @ + 1]
                /\ UNCHANGED <<store, stale>>
                /\ IF attemptAllowed(attempt[p] + 1, op[p].maxRetries)
                   THEN /\ pc' = [pc EXCEPT ![p] = "findOne"]
                        /\ UNCHANGED result
                   ELSE Finish(p, "ConcurrentModification")
    /\ UNCHANGED <<sessVars, nestVars, ctorVars, schemas, splitVars, batchVars, op, document, setAndUnset, caught, txVars>>

\* ------------------------------------------------------------------ database.ts: find, delete, update, createIndex
\* getSchemaWithObjectId(collection).parseAsync(result): the stored document
\* must have its _id and every declared key must parse.
parseStored(schema, doc) ==
    IF /\ doc["_id"] >= 0
       /\ \A k \in DOMAIN schema :
            parseAsync(schema[k], IF doc[k] = Absent THEN Undefined ELSE doc[k]) = "none"
    THEN "none" ELSE "ZodError"

\* The documents a read hands to the parse: the first match for findOne,
\* every match in collection order for findMany.
FoundIds(st, kind, filter) ==
    {id \in DocIds : Matches(st[id], filter) /\ (kind = "findMany" \/ id = FindFirst(st, filter))}

\* The first document read that the schema rejects, 0 when it accepts all.
FirstRejected(st, schema, ids) ==
    IF \E id \in ids : parseStored(schema, st[id]) # "none"
    THEN CHOOSE id \in ids :
            /\ parseStored(schema, st[id]) # "none"
            /\ \A other \in ids : parseStored(schema, st[other]) # "none" => id <= other
    ELSE 0

\* The document whose parse rejected the promise of a read, NoDoc when every
\* document read was accepted.
RejectedDoc(st, schema, kind, filter) ==
    LET bad == FirstRejected(st, schema, FoundIds(st, kind, filter))
    IN  IF bad # 0 THEN st[bad] ELSE NoDoc

\* findOne / findMany: getVerifiedQuery, then the storage read, then the
\* parse of every document read; a rejected document rejects the promise.
find(p) ==
    /\ pc[p] = "idle"
    /\ \E kind \in {"findOne", "findMany"}, q \in Queries :
        LET vq == getVerifiedQuery(q)
            ids == FoundIds(store, kind, vq.q)
        IN  /\ op' = [op EXCEPT ![p] = [NoOp EXCEPT !.kind = kind, !.query = q]]
            /\ IF vq.err # "none"
               THEN /\ Finish(p, vq.err)
                    /\ calls' = [calls EXCEPT ![p] = {}]
                    /\ UNCHANGED document
               ELSE /\ calls' = [calls EXCEPT ![p] = {kind}]
                    /\ document' = [document EXCEPT ![p] =
                                        RejectedDoc(store, flattenedSchemas, kind, vq.q)]
                    /\ Finish(p, IF ids = {} THEN "null"
                                 ELSE IF FirstRejected(store, flattenedSchemas, ids) # 0
                                      THEN "ZodError" ELSE "ok")
    /\ UNCHANGED <<sessVars, nestVars, ctorVars, schemas, splitVars, batchVars, store, attempt, setAndUnset, caught, stale, txVars>>

\* collection.deleteOne / deleteMany on the store.
DeleteFrom(st, kind, filter) ==
    [id \in DocIds |->
        IF Matches(st[id], filter) /\ (kind = "deleteMany" \/ id = FindFirst(st, filter))
        THEN NoDoc ELSE st[id]]

\* deleteOne / deleteMany: getVerifiedQuery, then delete.
delete(p) ==
    /\ pc[p] = "idle"
    /\ \E kind \in {"deleteOne", "deleteMany"}, q \in {QById, QUnknown, QProto} :
        LET vq == getVerifiedQuery(q)
        IN  /\ op' = [op EXCEPT ![p] = [NoOp EXCEPT !.kind = kind, !.query = q]]
            /\ IF vq.err # "none"
               THEN /\ Finish(p, vq.err)
                    /\ calls' = [calls EXCEPT ![p] = {}]
                    /\ UNCHANGED <<store, stale>>
               ELSE /\ calls' = [calls EXCEPT ![p] = {kind}]
                    /\ WriteEffect(p, DeleteFrom(store, kind, vq.q))
                    /\ Finish(p, "ok")
    /\ UNCHANGED <<sessVars, nestVars, ctorVars, schemas, splitVars, batchVars, attempt, document, setAndUnset, caught, txVars>>

\* A whole-document parse that accepts everything.
safeParseDocument_AlwaysOk(upd) ==
    [success |-> TRUE,
     data |-> [k \in ObjKeys |-> IF k \in DOMAIN flattenedSchemas THEN upd[k] ELSE Absent]]

\* schemas[collection].safeParseAsync(update): the whole-document parse of an
\* upsert.  Keys the schema does not declare are stripped from the result.
safeParseDocument(update) ==
    LET errs == [i \in 1..Len(KeyOrder) |->
                    IF KeyOrder[i] \notin DOMAIN flattenedSchemas THEN "none"
                    ELSE parseAsync(flattenedSchemas[KeyOrder[i]],
                                    IF update[KeyOrder[i]] = Absent THEN Undefined
                                    ELSE update[KeyOrder[i]])]
    IN  [success |-> FirstError(errs) = "none",
         data |-> [k \in ObjKeys |-> IF k \in DOMAIN flattenedSchemas THEN update[k] ELSE Absent]]

\* The for loop of update() without upsert: every path of the update object
\* is looked up and its value parsed.
UpdatePathErrors(update) ==
    [i \in 1..Len(KeyOrder) |->
        IF update[KeyOrder[i]] = Absent THEN "none"
        ELSE VerifyPathValue(KeyOrder[i], update[KeyOrder[i]])]

\* update(): the error it throws before the storage call ("none": it calls)
\* and the { $set, $unset } it sends.
PrepareUpdate(query, update, upsert) ==
    LET vq == getVerifiedQuery(query)
        parsed == safeParseDocument(update)
        pathErr == FirstError(UpdatePathErrors(update))
        su == getSafeSetAndUnset(IF upsert THEN parsed.data ELSE update)
    IN  IF vq.err # "none" THEN [NoUpdate EXCEPT !.err = vq.err]
        ELSE IF upsert /\ ~parsed.success THEN [NoUpdate EXCEPT !.err = "UpsertIncomplete"]
        ELSE IF ~upsert /\ pathErr # "none" THEN [NoUpdate EXCEPT !.err = pathErr]
        ELSE su

\* The document an upsert inserts: the equality fields of the filter, then
\* the update applied.
RECURSIVE FilterFields(_, _)
FilterFields(doc, filter) ==
    IF filter = <<>> THEN doc
    ELSE FilterFields(
            IF Head(filter).k \in DocKeys /\ Head(filter).v # OpExists
            THEN [doc EXCEPT ![Head(filter).k] = Head(filter).v] ELSE doc,
            Tail(filter))

FreeSlots(st, filter) ==
    {id \in DocIds :
        /\ st[id] = NoDoc
        /\ FilterFields(NoDoc, filter)["_id"] \in {Absent, id}}

\* collection.updateOne / updateMany(filter, { $set, $unset }, { upsert }).
UpdateIn(st, kind, filter, su, upsert, slot) ==
    IF FindFirst(st, filter) # 0
    THEN [id \in DocIds |->
            IF Matches(st[id], filter) /\ (kind = "updateMany" \/ id = FindFirst(st, filter))
            THEN ApplyUpdate(st[id], su) ELSE st[id]]
    ELSE IF upsert
    THEN [st EXCEPT ![slot] = ApplyUpdate([FilterFields(NoDoc, filter) EXCEPT !["_id"] = slot], su)]
    ELSE st

\* updateOne / updateMany -> update().
update(p) ==
    /\ pc[p] = "idle"
    /\ \E kind \in {"updateOne", "updateMany"}, q \in {QById, QUnknown},
          u \in Updates, upsert \in BOOLEAN :
        LET su == PrepareUpdate(q, u, upsert)
            inserts == su.err = "none" /\ upsert /\ FindFirst(store, q) = 0
        IN  /\ op' = [op EXCEPT ![p] = [NoOp EXCEPT !.kind = kind, !.query = q,
                                              !.update = u, !.upsert = upsert]]
            /\ IF su.err # "none"
               THEN /\ Finish(p, su.err)
                    /\ calls' = [calls EXCEPT ![p] = {}]
                    /\ UNCHANGED <<store, stale>>
               ELSE /\ calls' = [calls EXCEPT ![p] = {kind}]
                    /\ inserts => FreeSlots(store, q) # {}
                    /\ \E slot \in IF inserts THEN FreeSlots(store, q) ELSE {0} :
                        WriteEffect(p, UpdateIn(store, kind, q, su, upsert, slot))
                    /\ Finish(p, "ok")
    /\ UNCHANGED <<sessVars, nestVars, ctorVars, schemas, splitVars, batchVars, attempt, document, setAndUnset, caught, txVars>>

\* `key in this.flattenedSchemas[collection]`: own and inherited keys.
IndexKeyKnown(key) == key \in DOMAIN flattenedSchemas \/ key \in ObjectPrototypeKeys

\* createIndex: every key is checked, then collection.createIndex.
createIndex(p) ==
    /\ pc[p] = "idle"
    /\ \E index \in Indexes :
        /\ op' = [op EXCEPT ![p] = [NoOp EXCEPT !.kind = "createIndex", !.index = index]]
        /\ IF \E key \in index : ~IndexKeyKnown(key)
           THEN /\ Finish(p, "InvalidIndexPath")
                /\ calls' = [calls EXCEPT ![p] = {}]
           ELSE /\ calls' = [calls EXCEPT ![p] = {"createIndex"}]
                /\ Finish(p, "ok")
    /\ UNCHANGED <<sessVars, nestVars, ctorVars, schemas, splitVars, batchVars, store, attempt, document, setAndUnset, caught, stale, txVars>>

\* The caller of find / delete / update / createIndex has its answer and may
\* issue its next call of that kind; a transform caller makes that one call.
SimpleKinds ==
    {"findOne", "findMany", "deleteOne", "deleteMany", "updateOne", "updateMany", "createIndex"}

Returned == [NoOp EXCEPT !.kind = "returned"]

return(p) ==
    /\ pc[p] = "done"
    /\ op[p].kind \in SimpleKinds
    /\ pc' = [pc EXCEPT ![p] = "idle"]
    /\ op' = [op EXCEPT ![p] = Returned]
    /\ result' = [result EXCEPT ![p] = "none"]
    /\ calls' = [calls EXCEPT ![p] = {}]
    /\ UNCHANGED <<sessVars, nestVars, ctorVars, schemas, splitVars, batchVars, store, attempt, document, setAndUnset, caught, stale, txVars>>

NextDb ==
    \E p \in Procs :
        \/ transformOne(p)
        \/ transformLocate(p)
        \/ transformWrite(p)
        \/ find(p)
        \/ delete(p)
        \/ update(p)
        \/ createIndex(p)
        \/ return(p)

SpecDb == Init /\ [][NextDb]_vars

\* ------------------------------------------------------------------ properties of database.ts
IsTransform(p) == op[p].kind = "transform"
ValidTransformations == {"incA", "setB", "unsetB"}
InvalidTransformations == {"badA", "addUnknown", "unsetA"}
ValidationErrors == {"ZodError", "UnknownPath", "TypeError"}

\* C2: the conditional write of an attempt of transform (nonAtomic not set)
\* is applied only if the stored document, all of it, equals the document
\* the attempt read; otherwise the attempt writes nothing.
C2_WriteOnlyIfDocumentUnchanged ==
    [][\A p \in Procs :
        (/\ pc[p] = "findOneAndUpdate"
         /\ pc'[p] # pc[p]
         /\ IsTransform(p)
         /\ ~op[p].nonAtomic
         /\ store[document[p]["_id"]] # document[p])
        => (store' = store /\ result'[p] # "ok")]_vars

\* C3 as stated: when every caller runs one optimistic transform on the same
\* document, on paths no other caller changes, nobody raises the
\* concurrent-modification error, whatever maxRetries is.
WrittenPaths(t) == IF t = "incA" THEN {"a"} ELSE {"b"}
OnlyDisjointTransforms ==
    /\ \A p \in Procs :
        /\ IsTransform(p)
        /\ op[p].t \in ValidTransformations
        /\ op[p].query = QById
        /\ ~op[p].nonAtomic
    /\ \A p, q \in Procs : p # q => WrittenPaths(op[p].t) \cap WrittenPaths(op[q].t) = {}

C3_AllSucceedWithinMaxRetries ==
    OnlyDisjointTransforms => \A p \in Procs : result[p] # "ConcurrentModification"

\* C3 amended: among N callers that each run one optimistic transform and
\* with no other writer, a transform whose maxRetries is at least N - 1 never
\* raises the concurrent-modification error, and returns success when it
\* selects the document by _id with an output its schema accepts.
OnlyTransforms == \A q \in Procs : op[q].kind \in {"none", "transform"}

C3_SucceedsWhenRetriesCoverTheOthers ==
    OnlyTransforms =>
        \A p \in Procs :
            (IsTransform(p) /\ op[p].maxRetries >= NumProcs - 1) =>
                /\ result[p] # "ConcurrentModification"
                /\ (pc[p] = "done" /\ op[p].query = QById /\ op[p].t \in ValidTransformations)
                    => result[p] = "ok"

C3_Witness ==
    /\ OnlyTransforms
    /\ \E p \in Procs :
        /\ IsTransform(p)
        /\ op[p].maxRetries >= NumProcs - 1
        /\ ~op[p].nonAtomic
        /\ attempt[p] >= 1
        /\ result[p] = "ok"

\* C5 as stated: the concurrent-modification error is raised after exactly
\* maxRetries failed attempts.
C5_RaisedAfterMaxRetriesAttempts ==
    \A p \in Procs :
        result[p] = "ConcurrentModification" => attempt[p] = op[p].maxRetries

\* C5 amended: the concurrent-modification error is raised after exactly
\* maxRetries + 1 failed attempts (the first attempt and maxRetries retries),
\* never while an allowed attempt remains, and a transform whose
\* maxRetries + 1 conditional writes all conflicted has raised it.
C5_RaisedAfterMaxRetriesPlusOneAttempts ==
    \A p \in Procs :
        IsTransform(p) =>
            /\ attempt[p] <= op[p].maxRetries + 1
            /\ result[p] = "ConcurrentModification" <=> attempt[p] = op[p].maxRetries + 1
            /\ attempt[p] = op[p].maxRetries + 1 => pc[p] = "done"

C5_Witness ==
    \E p \in Procs :
        /\ IsTransform(p)
        /\ op[p].maxRetries = DefaultMaxRetries
        /\ attempt[p] = DefaultMaxRetries + 1
        /\ result[p] = "ConcurrentModification"

\* C6: find, delete, update and createIndex given a key that is not in the
\* flattened path map (other than _id in a query) fail with the unknown-path
\* error before any storage call is made.
UnknownQueryKey(q) ==
    \E i \in 1..Len(q) : q[i].k # "_id" /\ q[i].k \notin DOMAIN flattenedSchemas
UnknownUpdateKey(u) ==
    \E k \in ObjKeys : u[k] # Absent /\ k \notin DOMAIN flattenedSchemas
UnknownIndexKey(index) ==
    \E k \in index : k \notin DOMAIN flattenedSchemas

C6_UnknownPathFailsBeforeStorage ==
    \A p \in Procs :
        (/\ pc[p] = "done"
         /\ op[p].kind \in SimpleKinds
         /\ \/ UnknownQueryKey(op[p].query)
            \/ UnknownUpdateKey(op[p].update)
            \/ UnknownIndexKey(op[p].index))
        => (result[p] \in {"UnknownPath", "InvalidIndexPath"} /\ calls[p] = {})

\* C8: a transform whose output fails validation (a value its path's schema
\* rejects, or an unknown path) raises the error and leaves the stored
\* document as it was: the invocation issues no write, also not for the
\* paths whose outputs were valid.
C8_InvalidOutputWritesNothing ==
    /\ [](\A p \in Procs :
            (IsTransform(p) /\ op[p].t \in InvalidTransformations) =>
                /\ "findOneAndUpdate" \notin calls[p]
                /\ pc[p] \in {"findOne", "done"}
                /\ (pc[p] = "done" /\ "findOne" \in calls[p] /\ result[p] # "null")
                    => result[p] \in ValidationErrors)
    /\ [][\A p \in Procs :
            (IsTransform(p) /\ op[p].t \in InvalidTransformations /\ pc'[p] # pc[p])
                => store' = store]_vars

C8_Witness ==
    \E p \in Procs :
        /\ IsTransform(p)
        /\ op[p].t = "badA"
        /\ pc[p] = "done"
        /\ result[p] = "ZodError"
        /\ document[p] # NoDoc
        /\ \A id \in DocIds : store[id]["b"] = Absent

\* ------------------------------------------------------------------ README.md revision: inputs
\* A transformation is { path, transform }; path "" stands for no path (the
\* transform is given the accumulated object).
TIncA == [path |-> "a", fn |-> "inc"]
TSetB == [path |-> "b", fn |-> "const1"]
TUnsetB == [path |-> "b", fn |-> "undef"]
TBadA == [path |-> "a", fn |-> "bad"]
TUnknown == [path |-> "zzz", fn |-> "const1"]
TWholeSetB == [path |-> "", fn |-> "setB"]
TWholeIncA == [path |-> "", fn |-> "incA"]
TransformationLists ==
    {<<TIncA>>, <<TSetB>>, <<TUnsetB>>, <<TBadA>>, <<TUnknown>>, <<TSetB, TBadA>>, <<TWholeSetB>>,
     <<TWholeIncA>>}

\* The caller's transform functions.
applyFn(fn, value) ==
    CASE fn = "inc" -> IF value >= 0 THEN value + 1 ELSE Bad
      [] fn = "const1" -> 1
      [] fn = "undef" -> Undefined
      [] OTHER -> Bad

\* ZongoUtil.getValueAtPath for a top-level path: a missing key reads as undefined.
getValueAtPath(doc, path) == IF doc[path] = Absent THEN Undefined ELSE doc[path]

\* The caller's transform functions without a path: doc => ({ ...doc, b: 1 })
\* and doc => ({ ...doc, a: doc.a + 1 }); undefined + 1 is NaN, which no
\* number schema accepts.
applyWhole(fn, doc) ==
    CASE fn = "setB" -> [doc EXCEPT !["b"] = 1]
      [] OTHER -> [doc EXCEPT !["a"] = applyFn("inc", getValueAtPath(doc, "a"))]

\* transformations.reduce(..., {}): the object handed to getSafeSetAndUnset.
RECURSIVE reduceTransformations(_, _, _)
reduceTransformations(transformations, doc, acc) ==
    IF transformations = <<>> THEN acc
    ELSE LET t == Head(transformations)
             next == IF t.path = "" THEN applyWhole(t.fn, acc)
                     ELSE [acc EXCEPT ![t.path] = applyFn(t.fn, getValueAtPath(doc, t.path))]
         IN  reduceTransformations(Tail(transformations), doc, next)

\* ------------------------------------------------------------------ README.md: transformOne, checkTransactionSupport
\* transformOne(collection, query, transformations): it first awaits
\* checkTransactionSupport.
readmeTransformOne(p) ==
    /\ pc[p] = "idle"
    /\ op[p].kind = "none"
    /\ \E q \in {QById, QByA, QUnknown}, ts \in TransformationLists :
        op' = [op EXCEPT ![p] = [NoOp EXCEPT !.kind = "transformOne", !.query = q,
                                      !.transformations = ts,
                                      !.maxRetries = DefaultMaxRetries]]
    /\ pc' = [pc EXCEPT ![p] = "checkTransactionSupport"]
    /\ UNCHANGED <<sessVars, nestVars, ctorVars, schemas, splitVars, batchVars, store, attempt, document, setAndUnset, result, calls, caught, stale, txVars>>

\* Where transformOne continues once the flag is known.
StrategyEntry(flag) == IF flag = "true" THEN "txFindOne" ELSE "optFindOne"

\* checkTransactionSupport up to its first await: the cached flag is returned,
\* or the probe transaction is started.
checkTransactionSupport(p) ==
    /\ pc[p] = "checkTransactionSupport"
    /\ pc' = [pc EXCEPT ![p] =
                IF transactionsSupported # "null" THEN StrategyEntry(transactionsSupported)
                ELSE "probing"]
    /\ probes' = IF transactionsSupported # "null" THEN probes ELSE probes + 1
    /\ SetSessions(IF transactionsSupported # "null" THEN Sess
                   ELSE startSession(Sess, p, "checkTransactionSupport"))
    /\ UNCHANGED <<nestVars, ctorVars, schemas, splitVars, batchVars, store, op, attempt, document, setAndUnset, result, calls, caught, stale,
                   transactionsSupported, replicaSet, snapshot, lock>>

\* The probe transaction has ended: the flag is set from its outcome.
probeEnd(p) ==
    /\ pc[p] = "probing"
    /\ transactionsSupported' = IF replicaSet THEN "true" ELSE "false"
    /\ pc' = [pc EXCEPT ![p] = StrategyEntry(transactionsSupported')]
    /\ SetSessions(endSession(useSession(Sess, p), p))
    /\ UNCHANGED <<nestVars, ctorVars, schemas, splitVars, batchVars, store, op, attempt, document, setAndUnset, result, calls, caught, stale,
                   replicaSet, snapshot, lock, probes>>

\* ------------------------------------------------------------------ README.md: transformOneOptimistic
\* transformOneOptimistic called directly, with opts.maxRetries.
transformOneOptimistic(p) ==
    /\ pc[p] = "idle"
    /\ op[p].kind = "none"
    /\ \E q \in {QById, QByA, QUnknown}, ts \in TransformationLists, r \in RetryInputs :
        op' = [op EXCEPT ![p] = [NoOp EXCEPT !.kind = "transformOneOptimistic", !.query = q,
                                      !.transformations = ts,
                                      !.maxRetries = MaxRetriesOf(r)]]
    /\ pc' = [pc EXCEPT ![p] = "optFindOne"]
    /\ UNCHANGED <<sessVars, nestVars, ctorVars, schemas, splitVars, batchVars, store, attempt, document, setAndUnset, result, calls, caught, stale, txVars>>

IsOptimistic(p) ==
    op[p].kind \in {"transformOne", "transformOneOptimistic", "readmeTransformManyOptimistic"}

\* catch (error): rethrown when attempt >= maxRetries, otherwise attempt++
\* and the loop goes on after the delay.
optCatch(p, error) ==
    /\ caught' = [caught EXCEPT ![p] = error]
    /\ IF attempt[p] >= op[p].maxRetries
       THEN /\ Finish(p, error)
            /\ UNCHANGED attempt
       ELSE /\ attempt' = [attempt EXCEPT ![p] = @ + 1]
            /\ pc' = [pc EXCEPT ![p] = "optDelay"]
            /\ UNCHANGED result

\* A transformOneOptimistic that throws when findOne finds no document.
optNotFound_Throws == "NotFound"

\* What transformOneOptimistic returns when findOne finds no document.
optNotFound == "null"

\* The try block up to findOneAndUpdate: getVerifiedQuery, findOne, parse,
\* reduce, getSafeSetAndUnset.
optLocate(p) ==
    /\ pc[p] = "optFindOne"
    /\ IsOptimistic(p)
    /\ LET vq == getVerifiedQuery(op[p].query)
           id == FindFirst(store, vq.q)
           su == getSafeSetAndUnset(
                    reduceTransformations(op[p].transformations, store[id], EmptyObj))
       IN  IF vq.err # "none"
           THEN /\ optCatch(p, vq.err)
                /\ UNCHANGED <<document, setAndUnset, calls>>
           ELSE /\ calls' = [calls EXCEPT ![p] = @ \cup {"findOne"}]
                /\ IF id = 0
                   THEN /\ Finish(p, optNotFound)
                        /\ UNCHANGED <<document, setAndUnset, attempt, caught>>
                   ELSE /\ document' = [document EXCEPT ![p] = store[id]]
                        /\ IF su.err # "none"
                           THEN /\ optCatch(p, su.err)
                                /\ UNCHANGED setAndUnset
                           ELSE /\ setAndUnset' = [setAndUnset EXCEPT ![p] = su]
                                /\ pc' = [pc EXCEPT ![p] = "optFindOneAndUpdate"]
                                /\ UNCHANGED <<result, attempt, caught>>
    /\ UNCHANGED <<sessVars, nestVars, ctorVars, schemas, splitVars, batchVars, store, op, stale, txVars>>

\* The delay between two attempts is over.
optDelay(p) ==
    /\ pc[p] = "optDelay"
    /\ pc' = [pc EXCEPT ![p] = "optFindOne"]
    /\ UNCHANGED <<sessVars, nestVars, ctorVars, schemas, splitVars, batchVars, store, op, attempt, document, setAndUnset, result, calls, caught, stale, txVars>>

\* findOneAndUpdate({ _id: docId }, setAndUnset) and the return.
optWrite(p) ==
    /\ pc[p] = "optFindOneAndUpdate"
    /\ IsOptimistic(p)
    /\ calls' = [calls EXCEPT ![p] = @ \cup {"findOneAndUpdate"}]
    /\ LET id == FindFirst(store, IdFilter(document[p]["_id"]))
       IN  IF id = 0
           THEN /\ Finish(p, "null")
                /\ UNCHANGED <<store, stale>>
           ELSE /\ WriteEffect(p, [store EXCEPT ![id] = ApplyUpdate(@, setAndUnset[p])])
                /\ Finish(p, "ok")
    /\ UNCHANGED <<sessVars, nestVars, ctorVars, schemas, splitVars, batchVars, op, attempt, document, setAndUnset, caught, txVars>>

NextOpt ==
    \E p \in Procs :
        \/ readmeTransformOne(p)
        \/ checkTransactionSupport(p)
        \/ probeEnd(p)
        \/ transformOneOptimistic(p)
        \/ optLocate(p)
        \/ optDelay(p)
        \/ optWrite(p)
        \/ delete(p)
        \/ update(p)
        \/ return(p)

SpecOpt == InitOn(FALSE) /\ [][NextOpt]_vars

\* ------------------------------------------------------------------ properties of the README.md revision, optimistic
\* C1: when every caller runs transformOne / transformOneOptimistic with the
\* increment of a on the same document, then once all have returned either
\* all returned success and the stored a counts every increment, or one of
\* them raised an error: no success whose write was overwritten.
AllIncrementById ==
    \A p \in Procs :
        /\ IsOptimistic(p)
        /\ op[p].transformations = <<TIncA>>
        /\ op[p].query = QById
        /\ pc[p] = "done"

C1_NoSilentLostUpdate ==
    AllIncrementById =>
        \/ \E p \in Procs : result[p] # "ok"
        \/ store[1]["a"] = NumProcs

\* C7: a transformOne request that names a transformation path absent from
\* the flattened path map fails before any storage call, the read that
\* fetches the document included.
NamesUnknownPath(p) ==
    /\ IsOptimistic(p)
    /\ \E i \in 1..Len(op[p].transformations) :
        /\ op[p].transformations[i].path # ""
        /\ op[p].transformations[i].path \notin DOMAIN flattenedSchemas

C7_UnknownTransformPathFailsBeforeRead ==
    \A p \in Procs :
        NamesUnknownPath(p) =>
            /\ calls[p] = {}
            /\ pc[p] = "done" => result[p] = "UnknownPath"

\* C9: an unknown-path or schema-violation error raised during a transform
\* is surfaced at once: after it the invocation makes no further attempt.
C9_ValidationErrorsAreNotRetried ==
    \A p \in Procs :
        (IsOptimistic(p) /\ caught[p] \in ValidationErrors) =>
            (pc[p] = "done" /\ result[p] = caught[p] /\ attempt[p] = 0)

\* C10 as stated: transformOneOptimistic returns null exactly when no
\* document matches the query at its findOne.
OptStep(p) == IsOptimistic(p) /\ pc'[p] # pc[p]
ReturnsNull(p) == result[p] # "null" /\ result'[p] = "null"
NoMatchAtLocate(p) ==
    /\ pc[p] = "optFindOne"
    /\ getVerifiedQuery(op[p].query).err = "none"
    /\ FindFirst(store, op[p].query) = 0
NoMatchAtWrite(p) ==
    /\ pc[p] = "optFindOneAndUpdate"
    /\ FindFirst(store, IdFilter(document[p]["_id"])) = 0

IsTransactional(p) == op[p].kind = "transformOne"

\* The transactional branch of transformMany.
IsManyTransactional(p) == op[p].kind = "readmeTransformMany"

\* const session = this.client.startSession() of transformOne, when the
\* branch is entered, and the withTransaction callback: getVerifiedQuery and
\* findOne(verifiedQuery, { session }), the first read of the transaction;
\* the transaction reads the collection as it is now from here on.  A
\* return or a throw of the callback leaves through the finally block.
txLocate(p) ==
    /\ pc[p] = "txFindOne"
    /\ IsTransactional(p)
    /\ LET vq == getVerifiedQuery(op[p].query)
           id == FindFirst(store, vq.q)
           S == useSession(IF held[p] = <<>> THEN startSession(Sess, p, "transformOne")
                           ELSE Sess, p)
       IN  IF vq.err # "none"
           THEN /\ Finish(p, vq.err)
                /\ SetSessions(endSession(S, p))
                /\ UNCHANGED <<document, calls, snapshot, stale>>
           ELSE /\ calls' = [calls EXCEPT ![p] = @ \cup {"findOne"}]
                /\ IF id = 0
                   THEN /\ Finish(p, "null")
                        /\ SetSessions(endSession(S, p))
                        /\ UNCHANGED <<document, snapshot, stale>>
                   ELSE /\ document' = [document EXCEPT ![p] = store[id]]
                        /\ snapshot' = [snapshot EXCEPT ![p] = store]
                        /\ stale' = [stale EXCEPT ![p] = {}]
                        /\ pc' = [pc EXCEPT ![p] = "txRefetch"]
                        /\ SetSessions(S)
                        /\ UNCHANGED result
    /\ UNCHANGED <<nestVars, ctorVars, schemas, splitVars, batchVars, store, op, attempt, setAndUnset, caught, transactionsSupported,
                   replicaSet, lock, probes>>

\* transform(collection, document, transformations, session): the re-fetch
\* findOne({ _id }, { session }), parse, reduce, getSafeSetAndUnset.
txRefetch(p) ==
    /\ pc[p] = "txRefetch"
    /\ LET currentDocument == snapshot[p][document[p]["_id"]]
           su == getSafeSetAndUnset(
                    reduceTransformations(op[p].transformations, currentDocument, EmptyObj))
       IN  IF currentDocument = NoDoc
           THEN /\ Finish(p, "NotFoundDuringTransaction")
                /\ SetSessions(unwind(useSession(Sess, p), p))
                /\ UNCHANGED <<document, setAndUnset>>
           ELSE /\ document' = [document EXCEPT ![p] = currentDocument]
                /\ IF su.err # "none"
                   THEN /\ Finish(p, su.err)
                        /\ SetSessions(unwind(useSession(Sess, p), p))
                        /\ UNCHANGED setAndUnset
                   ELSE /\ setAndUnset' = [setAndUnset EXCEPT ![p] = su]
                        /\ pc' = [pc EXCEPT ![p] = "txUpdateOne"]
                        /\ SetSessions(useSession(Sess, p))
                        /\ UNCHANGED result
    /\ UNCHANGED <<nestVars, ctorVars, schemas, splitVars, batchVars, store, op, attempt, calls, caught, stale, txVars>>

\* An updateOne that is not given the session.
updateInSession_Without == FALSE

\* updateOne({ _id }, setAndUnset, { session }): the update is part of the
\* transaction.
updateInSession == TRUE

\* Where withTransaction runs its callback again.
CallbackEntry(p) == IF IsManyTransactional(p) THEN "manyFindOne" ELSE "txFindOne"

\* updateOne of transform.  In the transaction the write conflicts when the
\* document was written since the snapshot or carries another transaction's
\* uncommitted write: the transaction is aborted and withTransaction runs
\* the callback again.  Otherwise the write is held until the commit.
txUpdate(p) ==
    /\ pc[p] = "txUpdateOne"
    /\ calls' = [calls EXCEPT ![p] = @ \cup {"updateOne"}]
    /\ LET id == document[p]["_id"]
       IN  IF updateInSession
           THEN /\ IF id \in stale[p] \/ lock[id] \notin {0, p}
                   THEN /\ pc' = [pc EXCEPT ![p] = CallbackEntry(p)]
                        /\ UNCHANGED lock
                   ELSE /\ lock' = [lock EXCEPT ![id] = p]
                        /\ pc' = [pc EXCEPT ![p] = "txCommit"]
                /\ UNCHANGED <<store, stale>>
           ELSE /\ WriteEffect(p, [store EXCEPT ![id] =
                                    IF @ = NoDoc THEN @ ELSE ApplyUpdate(@, setAndUnset[p])])
                /\ pc' = [pc EXCEPT ![p] = "txCommit"]
                /\ UNCHANGED lock
    /\ SetSessions(useSession(Sess, p))
    /\ UNCHANGED <<nestVars, ctorVars, schemas, splitVars, batchVars, op, attempt, document, setAndUnset, result, caught,
                   transactionsSupported, replicaSet, snapshot, probes>>

\* The callback has returned: the transaction commits and its write takes
\* effect; the finally block ends the session.  transformOne returns;
\* transformMany goes on with the next identity.
txCommit(p) ==
    /\ pc[p] = "txCommit"
    /\ LET id == document[p]["_id"]
       IN  IF lock[id] = p
           THEN /\ WriteEffect(p, [store EXCEPT ![id] = ApplyUpdate(@, setAndUnset[p])])
                /\ lock' = [lock EXCEPT ![id] = 0]
           ELSE UNCHANGED <<store, stale, lock>>
    /\ SetSessions(endSession(Sess, p))
    /\ IF IsManyTransactional(p)
       THEN /\ documentIds' = [documentIds EXCEPT ![p] = Tail(@)]
            /\ pc' = [pc EXCEPT ![p] = "manyDocSession"]
            /\ UNCHANGED <<result, outcomes>>
       ELSE /\ Finish(p, "ok")
            /\ UNCHANGED batchVars
    /\ UNCHANGED <<nestVars, ctorVars, schemas, splitVars, op, attempt, document, setAndUnset, calls, caught,
                   transactionsSupported, replicaSet, snapshot, probes>>

NextTx ==
    \E p \in Procs :
        \/ readmeTransformOne(p)
        \/ checkTransactionSupport(p)
        \/ probeEnd(p)
        \/ txLocate(p)
        \/ txRefetch(p)
        \/ txUpdate(p)
        \/ txCommit(p)
        \/ delete(p)
        \/ update(p)
        \/ return(p)

SpecTx == InitOn(TRUE) /\ [][NextTx]_vars

\* ------------------------------------------------------------------ properties of the README.md revision, transactional
\* C4: under the transactional strategy no write of another invocation comes
\* between the in-transaction re-fetch of a document and the update of it:
\* whenever the update of a transformOne takes effect, the stored document
\* is the document the update was computed from.
C4_CommitReplacesTheDocumentRead ==
    [][\A p \in Procs :
        (/\ IsTransactional(p)
         /\ pc[p] \in {"txUpdateOne", "txCommit"}
         /\ pc'[p] # pc[p]
         /\ store' # store)
        => store[document[p]["_id"]] = document[p]]_vars

C4_Witness ==
    /\ \A p \in Procs :
        /\ IsTransactional(p)
        /\ op[p].transformations = <<TIncA>>
        /\ op[p].query = QById
        /\ result[p] = "ok"
    /\ store[1]["a"] = NumProcs

\* ------------------------------------------------------------------ README.md: checkTransactionSupport, the probe step by step
\* How session.withTransaction of the probe can end: it commits on a replica
\* set, fails with code 20 / IllegalOperation on a standalone server, and can
\* fail for another reason on either.
ProbeOutcomes(deployment) ==
    (IF deployment THEN {"ok"} ELSE {"IllegalOperation"}) \cup {"OtherError"}

\* An outer catch that leaves the flag as it was constructed.
probeCaught_Unknown == "null"

\* The outer catch: this.transactionsSupported = false.
probeCaught == "false"

ProbePcs ==
    {"probing", "probeDrop", "probeEndSession", "probeEndSessionFailed",
     "probeEndSessionRethrow"}

\* client.startSession() throws: the outer catch sets the flag and the
\* method returns it, all before the first await.
probeStartFails(p) ==
    /\ pc[p] = "checkTransactionSupport"
    /\ transactionsSupported = "null"
    /\ transactionsSupported' = probeCaught
    /\ pc' = [pc EXCEPT ![p] = StrategyEntry(transactionsSupported')]
    /\ UNCHANGED <<sessVars, nestVars, ctorVars, schemas, splitVars, batchVars, store, op, attempt, document, setAndUnset, result, calls, caught, stale,
                   replicaSet, snapshot, lock, probes>>

\* await session.withTransaction(...) of the probe has ended.
probeTransaction(p) ==
    /\ pc[p] = "probing"
    /\ \E outcome \in ProbeOutcomes(replicaSet) :
        /\ transactionsSupported' =
                CASE outcome = "ok" -> "true"
                  [] outcome = "IllegalOperation" -> "false"
                  [] OTHER -> transactionsSupported
        /\ pc' = [pc EXCEPT ![p] =
                CASE outcome = "ok" -> "probeDrop"
                  [] outcome = "IllegalOperation" -> "probeEndSessionFailed"
                  [] OTHER -> "probeEndSessionRethrow"]
    /\ SetSessions(useSession(Sess, p))
    /\ UNCHANGED <<nestVars, ctorVars, schemas, splitVars, batchVars, store, op, attempt, document, setAndUnset, result, calls, caught, stale,
                   replicaSet, snapshot, lock, probes>>

\* await testCollection.drop(): its errors are ignored.
probeDrop(p) ==
    /\ pc[p] = "probeDrop"
    /\ pc' = [pc EXCEPT ![p] = "probeEndSession"]
    /\ UNCHANGED <<sessVars, nestVars, ctorVars, schemas, splitVars, batchVars, store, op, attempt, document, setAndUnset, result, calls, caught, stale, txVars>>

\* finally { await session.endSession() }, the outer catch for a rethrown
\* error or a throwing endSession, and return this.transactionsSupported.
probeEndSession(p) ==
    /\ pc[p] \in {"probeEndSession", "probeEndSessionFailed", "probeEndSessionRethrow"}
    /\ \E throws \in BOOLEAN :
        transactionsSupported' =
            IF throws \/ pc[p] = "probeEndSessionRethrow" THEN probeCaught
            ELSE transactionsSupported
    /\ pc' = [pc EXCEPT ![p] = StrategyEntry(transactionsSupported')]
    /\ SetSessions(endSession(Sess, p))
    /\ UNCHANGED <<nestVars, ctorVars, schemas, splitVars, batchVars, store, op, attempt, document, setAndUnset, result, calls, caught, stale,
                   replicaSet, snapshot, lock, probes>>

InitProbe == \E deployment \in BOOLEAN : InitOn(deployment)

NextProbe ==
    \E p \in Procs :
        \/ readmeTransformOne(p)
        \/ checkTransactionSupport(p)
        \/ probeStartFails(p)
        \/ probeTransaction(p)
        \/ probeDrop(p)
        \/ probeEndSession(p)
        \/ optLocate(p)
        \/ optDelay(p)
        \/ optWrite(p)
        \/ txLocate(p)
        \/ txRefetch(p)
        \/ txUpdate(p)
        \/ txCommit(p)

SpecProbe == InitProbe /\ [][NextProbe]_vars

\* ------------------------------------------------------------------ properties of checkTransactionSupport
\* C11: per facade the transaction-capability probe is executed at most
\* once, also when transformOne calls start before the first probe ended.
C11_ProbeExecutedAtMostOnce == probes <= 1

\* C12: once the transaction-support flag has left the unknown state it
\* never changes value.
C12_FlagNeverChangesOnceKnown ==
    [][transactionsSupported # "null" => transactionsSupported' = transactionsSupported]_vars

\* C13: checkTransactionSupport never raises: every way out of it is a return
\* of the flag, which is then known, to transformOne, which enters the
\* strategy the flag selects; and a probe that failed (startSession threw,
\* the probe transaction failed for the standalone reason or another one)
\* leaves the flag at unsupported, its transformOne going on with the
\* optimistic strategy.  An endSession that throws after a probe that
\* succeeded does the same.
ProbeStartFailed(p) ==
    /\ pc[p] = "checkTransactionSupport"
    /\ transactionsSupported = "null"
    /\ pc'[p] \notin {pc[p], "probing"}
ProbeFailedExit(p) ==
    \/ ProbeStartFailed(p)
    \/ pc[p] \in {"probeEndSessionFailed", "probeEndSessionRethrow"} /\ pc'[p] # pc[p]
ProbeExit(p) ==
    /\ pc[p] \in ProbePcs \cup {"checkTransactionSupport"}
    /\ pc'[p] \notin ProbePcs \cup {"checkTransactionSupport"}

C13_ProbeFailureFallsBackToOptimistic ==
    [][\A p \in Procs :
        /\ ProbeExit(p) =>
            /\ transactionsSupported' \in {"true", "false"}
            /\ pc'[p] = StrategyEntry(transactionsSupported')
            /\ result'[p] = "none"
        /\ ProbeFailedExit(p) =>
            /\ transactionsSupported' = "false"
            /\ pc'[p] = "optFindOne"
        /\ (pc[p] = "probeEndSession" /\ pc'[p] # pc[p]) =>
            transactionsSupported' \in {transactionsSupported, "false"}]_vars

C13_Witness ==
    /\ replicaSet
    /\ transactionsSupported = "false"
    /\ \E p \in Procs :
        /\ op[p].kind = "transformOne"
        /\ "findOneAndUpdate" \in calls[p]
        /\ result[p] = "ok"

\* ------------------------------------------------------------------ database.ts: transformMany
\* for await (const document of cursor) documentIds.push(document._id): the
\* identities of the matching documents, in the order of the collection.
RECURSIVE IdsFrom(_, _, _)
IdsFrom(st, filter, id) ==
    IF id > NumDocs THEN <<>>
    ELSE (IF Matches(st[id], filter) THEN <<id>> ELSE <<>>) \o IdsFrom(st, filter, id + 1)

\* A cursor that yields every document a second time.
collectDocumentIds_Twice(st, filter) == IdsFrom(st, filter, 1) \o IdsFrom(st, filter, 1)

collectDocumentIds(st, filter) == IdsFrom(st, filter, 1)

\* Which of the words the catch block looks for occur in error.message.
\* The unknown-path Error is `Path "..." does not exist in collection "..."`;
\* the retry-exhaustion Error is `Transform operation failed after N retries
\* due to concurrent modifications`; the message of a ZodError is the JSON
\* text of its issues (code, expected, received, path, message), and a
\* TypeError's is `... is not a function`.
MessageMarkers(error) ==
    CASE error = "UnknownPath" -> {"Path", "does not exist"}
      [] error = "ConcurrentModification" -> {"retries due to concurrent modifications"}
      [] OTHER -> {}

\* The condition under which the catch block of transformMany rethrows.
Rethrown(error) == MessageMarkers(error) \cap {"ZodError", "Path", "does not exist"} # {}

FinishBatch(p, r) ==
    /\ pc' = [pc EXCEPT ![p] = "batchDone"]
    /\ result' = [result EXCEPT ![p] = r]

\* transformMany(collection, query, transformation, opts)
transformMany(p) ==
    /\ pc[p] = "idle"
    /\ op[p].kind = "none"
    /\ \E q \in {NoQuery, QByA, QUnknown}, t \in Transformations, r \in RetryInputs :
        op' = [op EXCEPT ![p] = [NoOp EXCEPT !.kind = "transformMany", !.query = q, !.t = t,
                                      !.maxRetries = MaxRetriesOf(r)]]
    /\ pc' = [pc EXCEPT ![p] = "manyFind"]
    /\ UNCHANGED <<sessVars, nestVars, ctorVars, schemas, splitVars, batchVars, store, attempt, document, setAndUnset, result, calls, caught,
                   stale, txVars>>

\* getVerifiedQuery, find, and the loop that collects the identities.
manyCollect(p) ==
    /\ pc[p] = "manyFind"
    /\ LET vq == getVerifiedQuery(op[p].query)
       IN  IF vq.err # "none"
           THEN /\ FinishBatch(p, vq.err)
                /\ UNCHANGED <<documentIds, calls>>
           ELSE /\ calls' = [calls EXCEPT ![p] = @ \cup {"find"}]
                /\ documentIds' = [documentIds EXCEPT ![p] = collectDocumentIds(store, vq.q)]
                /\ pc' = [pc EXCEPT ![p] = "manyLoop"]
                /\ UNCHANGED result
    /\ UNCHANGED <<sessVars, nestVars, ctorVars, schemas, splitVars, outcomes, store, op, attempt, document, setAndUnset, caught, stale, txVars>>

\* for (const docId of documentIds): what transform returned or threw for
\* the previous identity is counted or caught, then transform is called for
\* the next identity, or the batch returns.
manyStep(p) ==
    /\ op[p].kind = "transformMany"
    /\ pc[p] \in {"manyLoop", "done"}
    /\ LET outs == IF pc[p] = "done" THEN Append(outcomes[p], result[p]) ELSE outcomes[p]
           thrown == pc[p] = "done" /\ result[p] \notin {"ok", "null"}
       IN  /\ outcomes' = [outcomes EXCEPT ![p] = outs]
           /\ IF thrown /\ Rethrown(result[p])
              THEN /\ FinishBatch(p, result[p])
                   /\ UNCHANGED <<op, attempt>>
              ELSE IF Len(outs) = Len(documentIds[p])
              THEN /\ FinishBatch(p, "ok")
                   /\ UNCHANGED <<op, attempt>>
              ELSE /\ op' = [op EXCEPT ![p].query = IdFilter(documentIds[p][Len(outs) + 1])]
                   /\ attempt' = [attempt EXCEPT ![p] = 0]
                   /\ pc' = [pc EXCEPT ![p] = "findOne"]
                   /\ result' = [result EXCEPT ![p] = "none"]
    /\ UNCHANGED <<sessVars, nestVars, ctorVars, schemas, splitVars, documentIds, store, document, setAndUnset, calls, caught, stale, txVars>>

\* updateOne(collection, { _id }, { a: 1 }, { upsert: true }) by another caller:
\* it changes the document with that identity, or creates it.
updateOneUpsert(p) ==
    /\ pc[p] = "idle"
    /\ \E id \in DocIds :
        LET q == IdFilter(id)
            su == PrepareUpdate(q, USetA, TRUE)
        IN  /\ op' = [op EXCEPT ![p] = [NoOp EXCEPT !.kind = "updateOne", !.query = q,
                                              !.update = USetA, !.upsert = TRUE]]
            /\ su.err = "none"
            /\ calls' = [calls EXCEPT ![p] = {"updateOne"}]
            /\ WriteEffect(p, UpdateIn(store, "updateOne", q, su, TRUE, id))
            /\ Finish(p, "ok")
    /\ UNCHANGED <<sessVars, nestVars, ctorVars, schemas, splitVars, batchVars, attempt, document, setAndUnset, caught, txVars>>

NextMany ==
    \E p \in Procs :
        \/ transformMany(p)
        \/ manyCollect(p)
        \/ manyStep(p)
        \/ transformLocate(p)
        \/ transformWrite(p)
        \/ updateOneUpsert(p)
        \/ delete(p)
        \/ return(p)

SpecMany == Init /\ [][NextMany]_vars

\* ------------------------------------------------------------------ properties of transformMany
IsBatch(p) == op[p].kind = "transformMany"
InCycle(p) == pc[p] \in {"findOne", "findOneAndUpdate", "done"}
\* The identity whose transform cycle is under way.
CurrentId(p) == documentIds[p][Len(outcomes[p]) + 1]
SchemaViolations == {"ZodError"}

\* C14: transformMany collects the identities of the matching documents
\* before its first update and processes exactly those, one at a time in
\* collection order: the cycle of one identity, retries included, is over
\* before the next begins; no identity is processed twice; a document
\* created after the collection is not processed; a collected document that
\* is gone is skipped without error.
C14_CollectedIdentitiesProcessedInOrder ==
    /\ [](\A p \in Procs : IsBatch(p) =>
            /\ Len(outcomes[p]) <= Len(documentIds[p])
            /\ \A i, j \in 1..Len(documentIds[p]) : i < j => documentIds[p][i] < documentIds[p][j]
            /\ InCycle(p) =>
                /\ Len(outcomes[p]) < Len(documentIds[p])
                /\ op[p].query = IdFilter(CurrentId(p))
            /\ (pc[p] = "batchDone" /\ result[p] = "ok") => Len(outcomes[p]) = Len(documentIds[p]))
    /\ [][\A p \in Procs : (IsBatch(p) /\ pc'[p] # pc[p]) =>
            /\ pc[p] # "manyFind" => documentIds'[p] = documentIds[p]
            /\ \/ outcomes'[p] = outcomes[p]
               \/ pc[p] = "done" /\ outcomes'[p] = Append(outcomes[p], result[p])
            /\ store' # store =>
                /\ pc[p] = "findOneAndUpdate"
                /\ \A id \in DocIds : store'[id] # store[id] => id = CurrentId(p)
            /\ (pc[p] = "done" /\ result[p] = "null") =>
                \/ pc'[p] = "findOne" /\ op'[p].query = IdFilter(documentIds[p][Len(outcomes[p]) + 2])
                \/ pc'[p] = "batchDone" /\ result'[p] = "ok"]_vars

C14_Witness ==
    \E p \in Procs :
        /\ IsBatch(p)
        /\ pc[p] = "batchDone"
        /\ result[p] = "ok"
        /\ documentIds[p] = <<1>>
        /\ outcomes[p] = <<"null">>
        /\ store[1] = NoDoc
        /\ store[2] = [InitialDoc(2) EXCEPT !["a"] = 1]

\* C15: in transformMany a schema-violation error on one document aborts
\* the batch and is raised to the caller, and retry exhaustion on one
\* document does not stop the batch.
C15_SchemaViolationAbortsRetryExhaustionDoesNot ==
    \A p \in Procs : IsBatch(p) =>
        /\ \A i \in 1..Len(outcomes[p]) :
            /\ outcomes[p][i] \in SchemaViolations =>
                (i = Len(outcomes[p]) /\ pc[p] = "batchDone" /\ result[p] = outcomes[p][i])
            /\ (outcomes[p][i] = "ConcurrentModification" /\ i = Len(outcomes[p])) =>
                pc[p] \in {"findOne", "batchDone"}
        /\ result[p] # "ConcurrentModification" \/ pc[p] # "batchDone"

\* ------------------------------------------------------------------ the splitter called on an update object
\* ZongoUtil.getSetAndUnset(obj): $set is obj itself, which the call changed.
callGetSetAndUnset(p) ==
    /\ split.fn = "none"
    /\ LET r == getSetAndUnsetAt(obj, "")
       IN  /\ obj' = r.set
           /\ split' = [fn |-> "getSetAndUnset", input |-> obj,
                        set |-> [k \in KeySet(r.set) |-> Sub(r.set, k)],
                        unset |-> r.unset]
    /\ UNCHANGED <<sessVars, nestVars, ctorVars, schemas, batchVars, store, pc, op, attempt, document, setAndUnset, result, calls,
                   caught, stale, txVars>>

\* ZongoUtil.getSetAndUnsetPaths(obj)
callGetSetAndUnsetPaths(p) ==
    /\ split.fn = "none"
    /\ LET r == getSetAndUnsetPaths(obj)
       IN  split' = [fn |-> "getSetAndUnsetPaths", input |-> obj,
                     set |-> r.set, unset |-> r.unset]
    /\ UNCHANGED <<sessVars, nestVars, ctorVars, schemas, batchVars, obj, store, pc, op, attempt, document, setAndUnset, result, calls,
                   caught, stale, txVars>>

InitSplit ==
    /\ InitFacade(FALSE)
    /\ Constructed
    /\ schemas = flattenedSchemas
    /\ obj \in SplitInputs
    /\ split = NoSplit

NextSplit ==
    \E p \in Procs :
        \/ callGetSetAndUnset(p)
        \/ callGetSetAndUnsetPaths(p)

SpecSplit == InitSplit /\ [][NextSplit]_vars

\* ------------------------------------------------------------------ the collection's { $set, $unset } on a nested document
\* The stored document the updates are applied to: { x: {x: 5, y: 6}, y: {x: 7, y: 8} }.
StoredDoc ==
    With(With(EmptyTree, "x", With(With(EmptyTree, "x", Scalar(5)), "y", Scalar(6))),
         "y", With(With(EmptyTree, "x", Scalar(7)), "y", Scalar(8)))

\* The field a dotted key of $set / $unset addresses.
PathStrings == <<"x", "y", "x.x", "x.y", "y.x", "y.y">>
PathOf(s) ==
    CASE s = "x" -> <<"x">>
      [] s = "y" -> <<"y">>
      [] s = "x.x" -> <<"x", "x">>
      [] s = "x.y" -> <<"x", "y">>
      [] s = "y.x" -> <<"y", "x">>
      [] OTHER -> <<"y", "y">>

SetPath(doc, path, value) ==
    IF Len(path) = 1 THEN With(doc, path[1], value)
    ELSE With(doc, path[1],
              With(IF Sub(doc, path[1])[<<>>] = IsObject THEN Sub(doc, path[1]) ELSE EmptyTree,
                   path[2], value))

UnsetPath(doc, path) ==
    IF Len(path) = 2 /\ Sub(doc, path[1])[<<>>] # IsObject THEN doc
    ELSE SetPath(doc, path, Scalar(Absent))

\* The server rejects an update that names a path twice, or a path and a
\* path below it.
UpdateConflict(set, unset) ==
    \/ DOMAIN set \cap unset # {}
    \/ \E s1, s2 \in DOMAIN set \cup unset :
        /\ Len(PathOf(s1)) = 1
        /\ Len(PathOf(s2)) = 2
        /\ PathOf(s2)[1] = PathOf(s1)[1]

RECURSIVE applyEntries(_, _, _, _)
applyEntries(doc, strs, set, unset) ==
    IF strs = <<>> THEN doc
    ELSE LET str == Head(strs)
             next == IF str \in DOMAIN set THEN SetPath(doc, PathOf(str), set[str])
                     ELSE IF str \in unset THEN UnsetPath(doc, PathOf(str))
                     ELSE doc
         IN  applyEntries(next, Tail(strs), set, unset)

applySetAndUnset(doc, set, unset) ==
    IF UpdateConflict(set, unset) THEN doc ELSE applyEntries(doc, PathStrings, set, unset)

\* ------------------------------------------------------------------ properties of the splitter
SplitterCalled == split.fn # "none"

\* C16: for every update object, the set map and the unset map the splitter
\* returns have no key in common.
C16_SetAndUnsetDisjoint ==
    SplitterCalled => DOMAIN split.set \cap split.unset = {}

\* C17: for every key of the update whose value is undefined, at any depth,
\* the unset map has the key's full dotted path, and the key is not in set
\* (neither as a dotted path nor inside an object that set holds).
UndefinedPaths(v) == {path \in SplitPaths : path # <<>> /\ v[path] = Undefined}
Dotted(path) == IF Len(path) = 1 THEN path[1] ELSE Join(path[1], path[2])

C17_UndefinedKeysAreUnset ==
    SplitterCalled =>
        \A path \in UndefinedPaths(split.input) :
            /\ Dotted(path) \in split.unset
            /\ Dotted(path) \notin DOMAIN split.set
            /\ (Len(path) = 2 /\ path[1] \in DOMAIN split.set) =>
                    split.set[path[1]][<<path[2]>>] = Absent

\* C18: for a nested object of the update, the splitter emits one set entry
\* per defined nested leaf under the leaf's dotted path and none for the
\* parent, so that the fields of the stored sub-document which the update
\* does not name keep their values.
NestedObjectKeys(v) == {k \in SubKeys : Sub(v, k)[<<>>] = IsObject /\ KeysOf(Sub(v, k)) # <<>>}

C18_NestedLeavesSetByDottedPath ==
    SplitterCalled =>
        \A k \in NestedObjectKeys(split.input) :
            /\ k \notin DOMAIN split.set
            /\ \A n \in SubKeys :
                /\ split.input[<<k, n>>] >= 0 =>
                    /\ Join(k, n) \in DOMAIN split.set
                    /\ Join(k, n) \in DOMAIN split.set =>
                            split.set[Join(k, n)][<<>>] \in {split.input[<<k, n>>], At(split.input, <<Join(k, n)>>)}
                /\ (split.input[<<k, n>>] = Absent /\ At(split.input, <<Join(k, n)>>) = Absent) =>
                    applySetAndUnset(StoredDoc, split.set, split.unset)[<<k, n>>] = StoredDoc[<<k, n>>]

\* C19: the splitter does not modify the object it is given.
C19_SplitterLeavesItsArgumentUnchanged ==
    SplitterCalled => obj = split.input

\* ------------------------------------------------------------------ database.ts, first class (lines 19-836): updateOne, updateMany
\* The schema the database is constructed with: the modelled one, or
\* z.object({ a: z.number() }), which has no optional field.
RequiredOnly == [a |-> "ZodNumber"]
SchemaChoices == {flattenedSchemas, RequiredOnly}

\* The constructor adds the collection to collectionsWithOptionalFields when
\* schemaHasOptionalFields(schema).
schemaHasOptionalFields(schema) == \E k \in DOMAIN schema : schema[k] = "ZodOptional"

\* verifyQuery: every path of the query must be in the flattened schema; the
\* values are not parsed.
verifyQuery(schema, query) ==
    FirstError([i \in 1..Len(query) |->
        IF query[i].k \in DOMAIN schema THEN "none" ELSE "InvalidQueryPath"])

verifySet(schema, set) ==
    FirstError([i \in 1..Len(KeyOrder) |->
        IF set[KeyOrder[i]] = Absent THEN "none"
        ELSE IF KeyOrder[i] \notin DOMAIN schema THEN "InvalidSetPath"
        ELSE parseAsync(schema[KeyOrder[i]], set[KeyOrder[i]])])

verifyUnset(schema, unset) ==
    FirstError([i \in 1..Len(KeyOrder) |->
        IF KeyOrder[i] \notin unset THEN "none"
        ELSE IF KeyOrder[i] \notin DOMAIN schema THEN "InvalidUnsetPath"
        ELSE parseAsync(schema[KeyOrder[i]], Undefined)])

\* schemas[collection].safeParse(upd): the object schema wants every
\* declared key to parse and strips the keys it does not declare.
safeParse(schema, upd) ==
    [success |-> \A k \in DOMAIN schema :
                    parseAsync(schema[k], IF upd[k] = Absent THEN Undefined ELSE upd[k]) = "none",
     data |-> [k \in ObjKeys |-> IF k \in DOMAIN schema THEN upd[k] ELSE Absent]]

\* ZongoUtil.getSetAndUnsetPaths on an update object without nested objects.
getSetAndUnsetPathsOfUpdate(upd) ==
    [set |-> [k \in ObjKeys |-> IF upd[k] = Undefined THEN Absent ELSE upd[k]],
     unset |-> {k \in ObjKeys : upd[k] = Undefined}]

\* { $set: upd }: the update object as it is.
SetOnly(upd) == [err |-> "none", set |-> upd, unset |-> {}]

\* The error updateOne / updateMany throws before its storage call ("none":
\* it calls) and the update document it sends.
PrepareUpdateV1(schema, query, upd, upsert) ==
    LET parsed == safeParse(schema, upd)
        paths == getSetAndUnsetPathsOfUpdate(IF upsert THEN parsed.data ELSE upd)
        setErr == verifySet(schema, paths.set)
        unsetErr == verifyUnset(schema, paths.unset)
        sent == IF schemaHasOptionalFields(schema)
                THEN [err |-> "none", set |-> paths.set, unset |-> paths.unset]
                ELSE SetOnly(IF upsert THEN parsed.data ELSE upd)
    IN  IF verifyQuery(schema, query) # "none"
        THEN [NoUpdate EXCEPT !.err = verifyQuery(schema, query)]
        ELSE IF upsert
        THEN IF parsed.success THEN sent ELSE [NoUpdate EXCEPT !.err = "UpsertIncomplete"]
        ELSE IF schemaHasOptionalFields(schema) /\ setErr # "none"
        THEN [NoUpdate EXCEPT !.err = setErr]
        ELSE IF schemaHasOptionalFields(schema) /\ unsetErr # "none"
        THEN [NoUpdate EXCEPT !.err = unsetErr]
        ELSE sent

\* updateOne / updateMany of the first class.  An undefined value of $set
\* is stored as it is given (the driver serializes it as null).
updateV1(p) ==
    /\ pc[p] = "idle"
    /\ \E kind \in {"updateOne", "updateMany"}, q \in {NoQuery, QUnknown},
          u \in Updates, upsert \in BOOLEAN :
        LET su == PrepareUpdateV1(schemas, q, u, upsert)
            inserts == su.err = "none" /\ upsert /\ FindFirst(store, q) = 0
        IN  /\ op' = [op EXCEPT ![p] = [NoOp EXCEPT !.kind = kind, !.query = q,
                                              !.update = u, !.upsert = upsert]]
            /\ IF su.err # "none"
               THEN /\ Finish(p, su.err)
                    /\ calls' = [calls EXCEPT ![p] = {}]
                    /\ UNCHANGED <<store, stale>>
               ELSE /\ calls' = [calls EXCEPT ![p] = {kind}]
                    /\ inserts => FreeSlots(store, q) # {}
                    /\ \E slot \in IF inserts THEN FreeSlots(store, q) ELSE {0} :
                        WriteEffect(p, UpdateIn(store, kind, q, su, upsert, slot))
                    /\ Finish(p, "ok")
    /\ UNCHANGED <<sessVars, nestVars, ctorVars, schemas, splitVars, batchVars, attempt, document, setAndUnset, caught, txVars>>

\* createIndexes of the first class: the loop over the paths has an empty
\* body; collection.createIndex is called in a try block, true is returned,
\* or false when the storage call throws.
createIndexesV1(p) ==
    /\ pc[p] = "idle"
    /\ \E indexes \in Indexes, storageThrows \in BOOLEAN :
        /\ op' = [op EXCEPT ![p] = [NoOp EXCEPT !.kind = "createIndexes", !.index = indexes]]
        /\ calls' = [calls EXCEPT ![p] = {"createIndex"}]
        /\ Finish(p, IF storageThrows THEN "false" ELSE "true")
    /\ UNCHANGED <<sessVars, nestVars, ctorVars, schemas, splitVars, batchVars, store, attempt, document, setAndUnset, caught, stale, txVars>>

\* findOne / findMany of the first class: verifyQuery throws outside the
\* try block; inside it the storage read and the parse of every document
\* read.  No document: true.  The catch block logs the error of a rejected
\* document and returns false.
findV1(p) ==
    /\ pc[p] = "idle"
    /\ \E kind \in {"findOne", "findMany"}, q \in {NoQuery, QUnknown} :
        LET err == verifyQuery(schemas, q)
            ids == FoundIds(store, kind, q)
        IN  /\ op' = [op EXCEPT ![p] = [NoOp EXCEPT !.kind = kind, !.query = q]]
            /\ IF err # "none"
               THEN /\ Finish(p, err)
                    /\ calls' = [calls EXCEPT ![p] = {}]
                    /\ UNCHANGED document
               ELSE /\ calls' = [calls EXCEPT ![p] = {kind}]
                    /\ document' = [document EXCEPT ![p] = RejectedDoc(store, schemas, kind, q)]
                    /\ Finish(p, IF ids = {} THEN "true"
                                 ELSE IF FirstRejected(store, schemas, ids) # 0
                                      THEN "false" ELSE "ok")
    /\ UNCHANGED <<sessVars, nestVars, ctorVars, schemas, splitVars, batchVars, store, attempt, setAndUnset, caught, stale, txVars>>

\* deleteOne / deleteMany of the first class: verifyQuery throws outside the
\* try block; inside it both methods call collection.deleteMany(query).
deleteV1(p) ==
    /\ pc[p] = "idle"
    /\ \E kind \in {"deleteOne", "deleteMany"}, q \in {NoQuery, QUnknown} :
        LET err == verifyQuery(schemas, q)
        IN  /\ op' = [op EXCEPT ![p] = [NoOp EXCEPT !.kind = kind, !.query = q]]
            /\ IF err # "none"
               THEN /\ Finish(p, err)
                    /\ calls' = [calls EXCEPT ![p] = {}]
                    /\ UNCHANGED <<store, stale>>
               ELSE /\ calls' = [calls EXCEPT ![p] = {"deleteMany"}]
                    /\ WriteEffect(p, DeleteFrom(store, "deleteMany", q))
                    /\ Finish(p, "ok")
    /\ UNCHANGED <<sessVars, nestVars, ctorVars, schemas, splitVars, batchVars, attempt, document, setAndUnset, caught, txVars>>

\* Transformation lists of the first class: every entry has a path.
TransformUpdates ==
    {<<TIncA>>, <<TSetB>>, <<TUnsetB>>, <<TBadA>>, <<TUnknown>>, <<TSetB, TIncA>>}

\* transformOne of the first class up to its first await: verifyQuery, then
\* collection.findOne(query); true when there is no document.
transformOneV1(p) ==
    /\ pc[p] = "idle"
    /\ \A id \in DocIds : store[id]["a"] < MaxStored
    /\ \E q \in {NoQuery, QUnknown}, ts \in TransformUpdates :
        LET err == verifyQuery(schemas, q)
            id == FindFirst(store, q)
        IN  /\ op' = [op EXCEPT ![p] = [NoOp EXCEPT !.kind = "transformOne", !.query = q,
                                              !.transformations = ts]]
            /\ IF err # "none"
               THEN /\ Finish(p, err)
                    /\ calls' = [calls EXCEPT ![p] = {}]
                    /\ UNCHANGED document
               ELSE /\ calls' = [calls EXCEPT ![p] = {"findOne"}]
                    /\ IF id = 0
                       THEN /\ Finish(p, "true")
                            /\ UNCHANGED document
                       ELSE /\ document' = [document EXCEPT ![p] = store[id]]
                            /\ pc' = [pc EXCEPT ![p] = "transformAndUpdateDoc"]
                            /\ UNCHANGED result
    /\ UNCHANGED <<sessVars, nestVars, ctorVars, schemas, splitVars, batchVars, store, attempt, setAndUnset, caught, stale, txVars>>

\* A loop that puts every new value into updt.$set, undefined included.
RECURSIVE transformedPaths_SetOnly(_, _, _)
transformedPaths_SetOnly(upd, doc, updt) ==
    IF upd = <<>> THEN updt
    ELSE transformedPaths_SetOnly(Tail(upd), doc,
            [updt EXCEPT !.set[Head(upd).path] =
                            applyFn(Head(upd).fn, getValueAtPath(doc, Head(upd).path))])

\* The loop of transformAndUpdateDoc: updt.$unset[path] when the transform
\* returns undefined, updt.$set[path] otherwise.
RECURSIVE transformedPaths(_, _, _)
transformedPaths(upd, doc, updt) ==
    IF upd = <<>> THEN updt
    ELSE LET path == Head(upd).path
             newVal == applyFn(Head(upd).fn, getValueAtPath(doc, path))
         IN  transformedPaths(Tail(upd), doc,
                IF newVal = Undefined
                THEN [updt EXCEPT !.unset = @ \cup {path}]
                ELSE [updt EXCEPT !.set[path] = newVal])

\* transformAndUpdateDoc: parse of the document read, the loop, verifySet,
\* verifyUnset, then updateOne({ _id: docId }, updt); null, and false from
\* transformOne, when the update modified nothing.
transformAndUpdateDoc(p) ==
    /\ pc[p] = "transformAndUpdateDoc"
    /\ LET docId == document[p]["_id"]
           updt == transformedPaths(op[p].transformations, document[p], NoUpdate)
           errs == <<parseStored(schemas, document[p]), verifySet(schemas, updt.set),
                     verifyUnset(schemas, updt.unset)>>
           newStore == [id \in DocIds |->
                           IF Matches(store[id], IdFilter(docId))
                           THEN ApplyUpdate(store[id], updt) ELSE store[id]]
       IN  IF FirstError(errs) # "none"
           THEN /\ Finish(p, FirstError(errs))
                /\ UNCHANGED <<store, stale, calls>>
           ELSE /\ calls' = [calls EXCEPT ![p] = @ \cup {"updateOne"}]
                /\ WriteEffect(p, newStore)
                /\ Finish(p, IF newStore = store THEN "false" ELSE "ok")
    /\ UNCHANGED <<sessVars, nestVars, ctorVars, schemas, splitVars, batchVars, op, attempt, document, setAndUnset, caught, txVars>>

\* The caller has its answer and may issue its next call.
returnV1(p) ==
    /\ pc[p] = "done"
    /\ op[p].kind \in {"updateOne", "updateMany", "createIndexes", "findOne", "findMany",
                      "deleteOne", "deleteMany", "transformOne"}
    /\ pc' = [pc EXCEPT ![p] = "idle"]
    /\ op' = [op EXCEPT ![p] = Returned]
    /\ result' = [result EXCEPT ![p] = "none"]
    /\ calls' = [calls EXCEPT ![p] = {}]
    /\ document' = [document EXCEPT ![p] = NoDoc]
    /\ UNCHANGED <<sessVars, nestVars, ctorVars, schemas, splitVars, batchVars, store, attempt, setAndUnset, caught, stale, txVars>>

InitV1 ==
    /\ InitFacade(FALSE)
    /\ Constructed
    /\ schemas \in SchemaChoices
    /\ obj = EmptyTree
    /\ split = NoSplit

NextV1 ==
    \E p \in Procs :
        \/ updateV1(p)
        \/ createIndexesV1(p)
        \/ findV1(p)
        \/ returnV1(p)

SpecV1 == InitV1 /\ [][NextV1]_vars

\* The first class over a collection that holds several documents: its
\* deletes and reads.
InitDeleteV1 ==
    /\ InitOver(FALSE, [id \in DocIds |-> InitialDoc(id)])
    /\ Constructed
    /\ schemas \in SchemaChoices
    /\ obj = EmptyTree
    /\ split = NoSplit

NextDeleteV1 ==
    \E p \in Procs :
        \/ deleteV1(p)
        \/ findV1(p)
        \/ returnV1(p)

SpecDeleteV1 == InitDeleteV1 /\ [][NextDeleteV1]_vars

\* The first class: its path transformations and its reads.
NextTransformV1 ==
    \E p \in Procs :
        \/ transformOneV1(p)
        \/ transformAndUpdateDoc(p)
        \/ findV1(p)
        \/ returnV1(p)

SpecTransformV1 == InitV1 /\ [][NextTransformV1]_vars

\* ------------------------------------------------------------------ undefined assigned to a path
\* The paths an update object, or the output of a transformation, assigns
\* undefined to.
UndefinedOutputs(t) ==
    {k \in ObjKeys : applyTransformation(t, [EmptyObj EXCEPT !["a"] = 1])[k] = Undefined}

AssignedUndefined(p) ==
    IF op[p].kind = "transform" THEN UndefinedOutputs(op[p].t)
    ELSE IF op[p].kind \in {"updateOne", "updateMany"}
    THEN {k \in ObjKeys : op[p].update[k] = Undefined}
    ELSE {}

AcceptsAbsent(path) == path \in DOMAIN schemas /\ parseAsync(schemas[path], Undefined) = "none"
RequiresValue(path) == path \in DOMAIN schemas /\ parseAsync(schemas[path], Undefined) = "ZodError"
WriteCalls == {"updateOne", "updateMany", "findOneAndUpdate"}
UnsetRejections == {"ZodError", "UpsertIncomplete"}

\* The call got as far as validating what it assigns: its query was accepted
\* and, for a transform, a document was found.
ReachedValidation(p) ==
    IF op[p].kind = "transform" THEN "findOne" \in calls[p] /\ result[p] # "null"
    ELSE getVerifiedQuery(op[p].query).err = "none"

\* C20: an update or transform that assigns undefined to a path issues a
\* write only if the schema of every such path accepts an absent value; when
\* the schema of one of them requires a value, the call fails with a
\* schema-violation error and has issued no write.
C20_UndefinedOnlyWhereSchemaAcceptsAbsent ==
    \A p \in Procs :
        /\ calls[p] \cap WriteCalls # {} =>
                \A k \in AssignedUndefined(p) : AcceptsAbsent(k)
        /\ (\E k \in AssignedUndefined(p) : RequiresValue(k)) =>
                /\ calls[p] \cap WriteCalls = {}
                /\ pc[p] # "findOneAndUpdate"
                /\ (pc[p] = "done" /\ ReachedValidation(p)) => result[p] \in UnsetRejections

\* ------------------------------------------------------------------ constructing the facade
\* new ZongoDB(name, schemas) of the second class of database.ts.
construct ==
    /\ facade.state = "none"
    /\ facade' = constructor(registered)
    /\ UNCHANGED <<sessVars, nestVars, registered, schemas, splitVars, batchVars, store, pc, op, attempt, document,
                   setAndUnset, result, calls, caught, stale, txVars>>

\* new ZongoDB(name, schemas) of the part_007 revision.
constructWithoutPathMap ==
    /\ facade.state = "none"
    /\ facade' = constructorWithoutPathMap(registered)
    /\ UNCHANGED <<sessVars, nestVars, registered, schemas, splitVars, batchVars, store, pc, op, attempt, document,
                   setAndUnset, result, calls, caught, stale, txVars>>

InitCtor ==
    /\ InitFacade(FALSE)
    /\ schemas = flattenedSchemas
    /\ obj = EmptyTree
    /\ split = NoSplit
    /\ registered \in Registered
    /\ facade = NotConstructed

NextCtor ==
    \/ construct
    \/ constructWithoutPathMap

SpecCtor == InitCtor /\ [][NextCtor]_vars

\* The pairs of a dotted path and a schema found at it by descending through
\* object fields and tuple items, unwrapping and taking every union option.
RECURSIVE Reach(_, _)
Reach(schema, path) ==
    LET unwrapped == unwrapSchema(schema)
        kids == {unwrapped.kids[i] : i \in 1..Len(unwrapped.kids)}
    IN  IF unwrapped.type \in {"ZodObject", "ZodTuple"}
        THEN UNION {{[path |-> PathBelow(path, kid.key), schema |-> kid.schema]}
                        \cup Reach(kid.schema, PathBelow(path, kid.key)) : kid \in kids}
        ELSE IF unwrapped.type \in {"ZodUnion", "ZodDiscriminatedUnion"}
        THEN UNION {Reach(kid.schema, path) : kid \in kids}
        ELSE {}

\* What a schema accepts: the schemas other than unions and wrappers that a
\* value may satisfy, undefined and null being schemas of their own.
RECURSIVE Accepts(_)
Accepts(schema) ==
    CASE schema.type \in {"ZodOptional", "ZodDefault"} ->
            Accepts(InnerType(schema)) \cup {Leaf("ZodUndefined")}
      [] schema.type = "ZodNullable" -> Accepts(InnerType(schema)) \cup {Leaf("ZodNull")}
      [] schema.type = "ZodEffects" -> Accepts(InnerType(schema))
      [] schema.type \in {"ZodUnion", "ZodDiscriminatedUnion"} ->
            UNION {Accepts(schema.kids[i].schema) : i \in 1..Len(schema.kids)}
      [] OTHER -> {schema}

ConstructedByCurrent == facade.by = "database.ts" /\ facade.state = "constructed"
Collections == 1..Len(registered)

\* C21: every dotted path reachable by object/tuple descent is a key of the
\* flattened map, and the schema stored at a path accepts every value that
\* the schema of any union branch at that path accepts.
C21_FlattenedMapCoversEveryBranch ==
    ConstructedByCurrent =>
        \A c \in Collections : \A found \in Reach(registered[c], "") :
            /\ found.path \in DOMAIN facade.flattenedSchemas[c]
            /\ Accepts(found.schema) \subseteq Accepts(facade.flattenedSchemas[c][found.path])

\* C22: an entry of the flattened map that was built by merging (it is none
\* of the schemas found at its path) is not a union with a union among its
\* direct options.
SchemasAt(c, path) == {found.schema : found \in {f \in Reach(registered[c], "") : f.path = path}}

C22_MergedUnionsAreFlat ==
    ConstructedByCurrent =>
        \A c \in Collections : \A path \in DOMAIN facade.flattenedSchemas[c] :
            LET stored == facade.flattenedSchemas[c][path]
            IN  (stored \notin SchemasAt(c, path) /\ stored.type = "ZodUnion") =>
                    \A i \in 1..Len(stored.kids) : stored.kids[i].schema.type # "ZodUnion"

\* C23: constructing a facade with a collection schema that contains, at
\* any depth, a map, set, intersection, function, void or bigint type throws;
\* no facade is returned for such a schema.
UnsupportedTypes == {"ZodMap", "ZodSet", "ZodIntersection", "ZodFunction", "ZodVoid", "ZodBigInt"}

RECURSIVE ContainsUnsupported(_)
ContainsUnsupported(schema) ==
    \/ schema.type \in UnsupportedTypes
    \/ \E i \in 1..Len(schema.kids) : ContainsUnsupported(schema.kids[i].schema)

TopLevelKeys(schema) == {schema.kids[i].key : i \in 1..Len(schema.kids)}
SomeSchemaNamesId == \E c \in Collections : "_id" \in TopLevelKeys(registered[c])

C24_TopLevelIdFailsBeforeAnythingIsCreated ==
    facade.state # "none" =>
        /\ (facade.state = "threw" /\ facade.created = {}) <=> SomeSchemaNamesId
        /\ SomeSchemaNamesId => facade.error = "ProtectedIdField"

C24_Witness ==
    /\ facade.by = "database.ts"
    /\ facade.state = "threw"
    /\ facade.error = "ProtectedIdField"
    /\ facade.created = {}
    /\ registered = <<ModelledSchema, IdFirst>>

\* ------------------------------------------------------------------ properties of getVerifiedQuery
QueryKinds == {"findOne", "findMany", "deleteOne", "deleteMany"}
KnownPath(e) == e.k \in DOMAIN flattenedSchemas
IsScalar(e) == e.v # OpExists
InvalidScalar(e) ==
    /\ e.k # "_id" /\ KnownPath(e) /\ IsScalar(e)
    /\ ~(flattenedSchemas[e.k] = "ZodNumber" /\ e.v >= 0)
    /\ ~(flattenedSchemas[e.k] = "ZodOptional" /\ (e.v >= 0 \/ e.v = Undefined))
Acceptable(e) == e.k = "_id" \/ (KnownPath(e) /\ ~InvalidScalar(e))
EntriesIn(q) == {q[i] : i \in 1..Len(q)}

\* C25: a query with a scalar entry that the schema of its path rejects
\* fails with the schema-violation error and no storage call is made; a query
\* whose entries are _id entries, object-valued entries at known paths and
\* valid scalars is handed to storage as it is.
C25_ScalarsValidatedObjectsAndIdPassed ==
    \A p \in Procs :
        (pc[p] = "done" /\ op[p].kind \in QueryKinds) =>
            /\ (/\ \E e \in EntriesIn(op[p].query) : InvalidScalar(e)
                /\ \A e \in EntriesIn(op[p].query) : e.k = "_id" \/ KnownPath(e))
               => (result[p] = "ZodError" /\ calls[p] = {})
            /\ (\A e \in EntriesIn(op[p].query) : Acceptable(e))
               => /\ result[p] \in {"ok", "null"}
                  /\ calls[p] = {op[p].kind}
                  /\ getVerifiedQuery(op[p].query).q = op[p].query

C25_Witness ==
    \E p, q \in Procs :
        /\ pc[p] = "done" /\ op[p].kind = "findOne" /\ op[p].query = QOpThenBad
        /\ result[p] = "ZodError" /\ calls[p] = {}
        /\ pc[q] = "done" /\ op[q].kind = "findMany" /\ op[q].query = QExistsA
        /\ result[q] = "ok" /\ calls[q] = {"findMany"}

\* C26: index creation given a key that is not a path of the collection's
\* schema throws, and no createIndex call is made to storage.
IndexKinds == {"createIndex", "createIndexes"}

C26_UnknownIndexKeyThrowsBeforeStorage ==
    \A p \in Procs :
        (pc[p] = "done" /\ op[p].kind \in IndexKinds /\ UnknownIndexKey(op[p].index))
        => (result[p] \in {"InvalidIndexPath", "UnknownPath"} /\ "createIndex" \notin calls[p])

\* C27: every path and value that updateOne / updateMany without upsert
\* sends to storage has been validated against the schema of its path: no
\* update reaches storage with an unknown path or a value its schema rejects.
UpdateKinds == {"updateOne", "updateMany"}
ValidAtPath(path, value) == path \in DOMAIN schemas /\ parseAsync(schemas[path], value) = "none"

C27_OnlyValidatedUpdatesReachStorage ==
    \A p \in Procs :
        (/\ op[p].kind \in UpdateKinds
         /\ ~op[p].upsert
         /\ calls[p] \cap UpdateKinds # {})
        => \A k \in ObjKeys :
                op[p].update[k] # Absent => ValidAtPath(k, op[p].update[k])

\* C28: updateOne / updateMany with upsert: true fail with an error, and
\* make no storage call, unless the update object parses as a complete
\* document of the collection's schema.
CompleteDocument(upd) ==
    \A k \in DOMAIN schemas :
        parseAsync(schemas[k], IF upd[k] = Absent THEN Undefined ELSE upd[k]) = "none"

C28_UpsertNeedsCompleteDocument ==
    \A p \in Procs :
        (/\ pc[p] = "done"
         /\ op[p].kind \in UpdateKinds
         /\ op[p].upsert
         /\ ~CompleteDocument(op[p].update))
        => /\ result[p] \in {"UpsertIncomplete", "UnknownPath", "InvalidQueryPath"}
           /\ calls[p] = {}
           /\ getVerifiedQuery(op[p].query).err = "none" => result[p] = "UpsertIncomplete"

C28_Witness ==
    \E p \in Procs :
        /\ pc[p] = "done"
        /\ op[p].kind = "updateOne"
        /\ op[p].upsert
        /\ op[p].update = USetB
        /\ op[p].query = QById
        /\ result[p] = "UpsertIncomplete"
        /\ calls[p] = {}

\* ------------------------------------------------------------------ C29
FindKinds == {"findOne", "findMany"}

\* The read of caller p handed a document to the parse and the schema of
\* the collection rejects it.
ReadRejected(p) ==
    /\ pc[p] = "done"
    /\ op[p].kind \in FindKinds
    /\ op[p].kind \in calls[p]
    /\ document[p] # NoDoc
    /\ parseStored(schemas, document[p]) # "none"

\* C29: when findOne / findMany reads a stored document that its schema
\* rejects, the call raises the validation error; it does not return a
\* boolean or null in its place.
C29_RejectedDocumentRaises ==
    \A p \in Procs : ReadRejected(p) => result[p] = "ZodError"

C29_Witness == \E p \in Procs : ReadRejected(p)

\* ------------------------------------------------------------------ C30
\* Caller p's call of the given kind takes its step.
Calls(p, kind) == pc[p] = "idle" /\ pc'[p] = "done" /\ op'[p].kind = kind

\* The documents the step removes from the collection.
Removed == {id \in DocIds : store[id] # NoDoc /\ store'[id] = NoDoc}

DeleteOneRemovesAtMostOne ==
    \A p \in Procs :
        Calls(p, "deleteOne") =>
            /\ Cardinality(Removed) <= 1
            /\ \A id \in Removed : Matches(store[id], op'[p].query)

DeleteManyRemovesAllMatches ==
    \A p \in Procs :
        (Calls(p, "deleteMany") /\ calls'[p] # {}) =>
            Removed = {id \in DocIds : Matches(store[id], op'[p].query)}

\* C30: a deleteOne call removes at most one document, and only one that
\* matches its query; a deleteMany call that reaches the collection
\* removes every document matching its query.
C30_DeleteOneRemovesAtMostOne ==
    [][DeleteOneRemovesAtMostOne /\ DeleteManyRemovesAllMatches]_vars

\* ------------------------------------------------------------------ util.ts: removeExplicitUndefined
IsArray == -8            \* the value at this path is an array; its keys are its indices
Null == -9               \* the value null

\* for (const key in obj): the enumerable keys of an object, the indices of
\* an array that are not holes.
EnumerableKeys(v) ==
    SelectSeq(TopKeys, LAMBDA k : v[<<>>] \in {IsObject, IsArray} /\ At(v, <<k>>) # Absent)

\* A removal that does not descend into the values it keeps.
removeExplicitUndefined_Shallow(v) ==
    [p \in SplitPaths |-> IF Len(p) = 1 /\ v[p] = Undefined THEN Absent ELSE v[p]]

\* The for loop of removeExplicitUndefined: delete obj[key] when the value is
\* undefined, obj[key] = removeExplicitUndefined(obj[key]) otherwise.
RECURSIVE removeExplicitUndefined(_)
RECURSIVE removeKeys(_, _)
removeKeys(v, keys) ==
    IF keys = <<>> THEN v
    ELSE removeKeys(
            IF Sub(v, Head(keys))[<<>>] = Undefined THEN With(v, Head(keys), Scalar(Absent))
            ELSE With(v, Head(keys), removeExplicitUndefined(Sub(v, Head(keys)))),
            Tail(keys))

\* ZongoUtil.removeExplicitUndefined(obj): null and what is not an object
\* are returned as they are; an object or an array is changed in place and
\* returned.
removeExplicitUndefined(v) ==
    IF v[<<>>] \notin {IsObject, IsArray} THEN v ELSE removeKeys(v, EnumerableKeys(v))

\* Arguments: objects and arrays of numbers, nulls, undefined values,
\* objects and arrays.
CleanLeaves == {Absent, Undefined, Null, 6}
Container(marker, vx, vy) == With(With(Scalar(marker), "x", vx), "y", vy)
CleanProperties ==
    {Scalar(c) : c \in CleanLeaves}
        \cup {Container(m, Scalar(a), Scalar(b)) :
                m \in {IsObject, IsArray}, a \in CleanLeaves \ {Null}, b \in CleanLeaves \ {Null}}
CleanInputs ==
    {Container(m, vx, vy) : m \in {IsObject, IsArray}, vx \in CleanProperties, vy \in CleanProperties}
        \cup {Scalar(Null), Scalar(6)}

callRemoveExplicitUndefined(p) ==
    /\ split.fn = "none"
    /\ obj' = removeExplicitUndefined(obj)
    /\ split' = [NoSplit EXCEPT !.fn = "removeExplicitUndefined", !.input = obj]
    /\ UNCHANGED <<sessVars, nestVars, ctorVars, schemas, batchVars, store, pc, op, attempt, document, setAndUnset, result, calls,
                   caught, stale, txVars>>

InitClean ==
    /\ InitFacade(FALSE)
    /\ Constructed
    /\ schemas = flattenedSchemas
    /\ obj \in CleanInputs
    /\ split = NoSplit

NextClean == \E p \in Procs : callRemoveExplicitUndefined(p)

SpecClean == InitClean /\ [][NextClean]_vars

\* ------------------------------------------------------------------ database.ts: update() on nested paths
\* The collection schema z.object({ x: z.object({ x: z.number(), y:
\* z.number() }).optional(), y: z.number() }), flattened.
nestedSchemas ==
    [s \in {"x", "y", "x.x", "x.y"} |-> IF s = "x" THEN "ZodObject" ELSE "ZodNumber"]

\* Operator objects of a query besides { $exists: true }.
OpNe == -6               \* { $ne: null }
OpNeExists == -7         \* { $ne: null, $exists: true }
IsOperatorObject(v) == v \in {OpExists, OpNe, OpNeExists}

\* value.$exists = true on an operator object.
withExists(v) == IF v = OpNe THEN OpNeExists ELSE v

\* Queries and update objects of the nested collection, as entry sequences.
NestedQueries ==
    {<<>>, <<[k |-> "y", v |-> 8]>>, <<[k |-> "x", v |-> OpNe]>>,
     <<[k |-> "x", v |-> 5]>>, <<[k |-> "y.x", v |-> 1]>>}
NestedUpdates ==
    {<<[k |-> "x.y", v |-> 1]>>, <<[k |-> "y", v |-> 1]>>,
     <<[k |-> "x.y", v |-> 1], [k |-> "x.x", v |-> 2]>>,
     <<[k |-> "y.x", v |-> 1]>>, <<[k |-> "x.y", v |-> Bad]>>}

\* getSchemaAtPath(collection, path).parseAsync(value) on the nested collection.
parseAtPath(path, value) ==
    IF path \notin DOMAIN nestedSchemas THEN "UnknownPath"
    ELSE IF nestedSchemas[path] = "ZodNumber" /\ value >= 0 THEN "none"
    ELSE "ZodError"

\* getVerifiedQuery on the nested collection: a new object; an object value
\* is put into it as it is, by reference.
verifiedQueryOf(qry) ==
    [err |-> FirstError([i \in 1..Len(qry) |->
                IF qry[i].k = "_id" THEN "none"
                ELSE IF qry[i].k \notin DOMAIN nestedSchemas THEN "UnknownPath"
                ELSE IF IsOperatorObject(qry[i].v) THEN "none"
                ELSE parseAtPath(qry[i].k, qry[i].v)]),
     q |-> qry]

\* path.split("."), and parts.slice(0, i).join(".") for 1 <= i < parts.length.
PathParents(path) ==
    [i \in 1..(Len(PathOf(path)) - 1) |-> Dotted(SubSeq(PathOf(path), 1, i))]

HasKey(qry, key) == \E i \in 1..Len(qry) : qry[i].k = key

\* addPathParentsToQuery(path, query): query[part] = {} when it is
\* undefined, then query[part].$exists = true.
RECURSIVE addParents(_, _)
addParents(parents, qry) ==
    IF parents = <<>> THEN qry
    ELSE addParents(Tail(parents),
            IF HasKey(qry, Head(parents))
            THEN [i \in 1..Len(qry) |->
                    IF qry[i].k = Head(parents) THEN [qry[i] EXCEPT !.v = withExists(@)]
                    ELSE qry[i]]
            ELSE Append(qry, [k |-> Head(parents), v |-> OpExists]))

addPathParentsToQuery(path, qry) == addParents(PathParents(path), qry)

\* The loop of update() over the paths of the update object: parseAsync of
\* each value, then addPathParentsToQuery(path, query); a rejected value
\* ends the loop with the query as the earlier iterations left it.
RECURSIVE parseAndAddParents(_, _)
parseAndAddParents(upd, qry) ==
    IF upd = <<>> THEN [err |-> "none", query |-> qry]
    ELSE IF parseAtPath(Head(upd).k, Head(upd).v) # "none"
    THEN [err |-> parseAtPath(Head(upd).k, Head(upd).v), query |-> qry]
    ELSE parseAndAddParents(Tail(upd), addPathParentsToQuery(Head(upd).k, qry))

\* verifiedQuery as the storage call sees it: its own entries, the operator
\* objects being the caller's objects, whatever was assigned into them.
SeenThrough(verified, qry) ==
    [i \in 1..Len(verified) |->
        IF IsOperatorObject(verified[i].v)
        THEN [verified[i] EXCEPT !.v = (CHOOSE e \in {qry[j] : j \in 1..Len(qry)} :
                                            e.k = verified[i].k).v]
        ELSE verified[i]]

\* schemas[collection].safeParseAsync(update) of an upsert: y is required,
\* keys that the shape does not have are stripped.
safeParseNested(upd) ==
    [success |-> \E i \in 1..Len(upd) : upd[i].k = "y" /\ upd[i].v >= 0,
     data |-> SelectSeq(upd, LAMBDA e : e.k = "y")]

\* The collection's matching of a filter entry against a nested document.
MatchesNestedEntry(doc, e) ==
    /\ e.k \in {PathStrings[i] : i \in 1..Len(PathStrings)}
    /\ IF IsOperatorObject(e.v) THEN At(doc, PathOf(e.k)) # Absent
       ELSE At(doc, PathOf(e.k)) = e.v

MatchesNested(doc, filter) ==
    /\ doc # NoTree
    /\ \A i \in 1..Len(filter) : MatchesNestedEntry(doc, filter[i])

FirstNested(st, filter) ==
    IF \E id \in DocIds : MatchesNested(st[id], filter)
    THEN CHOOSE id \in DocIds :
            /\ MatchesNested(st[id], filter)
            /\ \A other \in DocIds : MatchesNested(st[other], filter) => id <= other
    ELSE 0

\* { $set: set } applied to a nested document, entry by entry.
RECURSIVE ApplySet(_, _)
ApplySet(doc, set) ==
    IF set = <<>> THEN doc
    ELSE ApplySet(SetPath(doc, PathOf(Head(set).k), Scalar(Head(set).v)), Tail(set))

\* collection.updateOne / updateMany(filter, { $set }, { upsert }) on the
\* nested collection; an upsert without a match inserts into slot.
UpdateNestedIn(st, kind, filter, set, upsert, slot) ==
    IF FirstNested(st, filter) # 0
    THEN [id \in DocIds |->
            IF MatchesNested(st[id], filter) /\ (kind = "updateMany" \/ id = FirstNested(st, filter))
            THEN ApplySet(st[id], set) ELSE st[id]]
    ELSE IF upsert /\ slot # 0
    THEN [st EXCEPT ![slot] =
            ApplySet(ApplySet(EmptyTree, SelectSeq(filter, LAMBDA e : ~IsOperatorObject(e.v))), set)]
    ELSE st

\* update() of updateOne / updateMany on the nested collection.
updateNested(p) ==
    /\ pc[p] = "idle"
    /\ \E kind \in {"updateOne", "updateMany"}, qry \in NestedQueries,
          upd \in NestedUpdates, upsert \in BOOLEAN :
        LET vq == verifiedQueryOf(qry)
            parsed == safeParseNested(upd)
            looped == parseAndAddParents(upd, qry)
            err == IF vq.err # "none" THEN vq.err
                   ELSE IF upsert THEN (IF parsed.success THEN "none" ELSE "UpsertIncomplete")
                   ELSE looped.err
            left == IF vq.err # "none" \/ upsert THEN qry ELSE looped.query
            filter == SeenThrough(vq.q, left)
            set == IF upsert THEN parsed.data ELSE upd
            free == {id \in DocIds : nested[id] = NoTree}
        IN  /\ op' = [op EXCEPT ![p] = [NoOp EXCEPT !.kind = kind, !.upsert = upsert]]
            /\ callerQuery' = [callerQuery EXCEPT ![p] = left]
            /\ IF err # "none"
               THEN /\ Finish(p, err)
                    /\ calls' = [calls EXCEPT ![p] = {}]
                    /\ UNCHANGED <<sentFilter, nested, sentUpdate>>
               ELSE /\ calls' = [calls EXCEPT ![p] = {kind}]
                    /\ sentFilter' = [sentFilter EXCEPT ![p] = filter]
                    /\ sentUpdate' = [sentUpdate EXCEPT ![p] = set]
                    /\ \E slot \in IF free = {} THEN {0} ELSE free :
                        nested' = UpdateNestedIn(nested, kind, filter, set, upsert, slot)
                    /\ Finish(p, "ok")
    /\ UNCHANGED <<sessVars, ctorVars, schemas, splitVars, batchVars, store, attempt, document, setAndUnset, caught, stale, txVars>>

\* The caller has its answer and may issue its next call.
returnNested(p) ==
    /\ pc[p] = "done"
    /\ pc' = [pc EXCEPT ![p] = "idle"]
    /\ op' = [op EXCEPT ![p] = Returned]
    /\ result' = [result EXCEPT ![p] = "none"]
    /\ calls' = [calls EXCEPT ![p] = {}]
    /\ callerQuery' = [callerQuery EXCEPT ![p] = <<>>]
    /\ sentFilter' = [sentFilter EXCEPT ![p] = <<>>]
    /\ sentUpdate' = [sentUpdate EXCEPT ![p] = <<>>]
    /\ UNCHANGED <<sessVars, nested, ctorVars, schemas, splitVars, batchVars, store, attempt, document, setAndUnset, caught, stale, txVars>>

NextNested ==
    \E p \in Procs :
        \/ updateNested(p)
        \/ returnNested(p)

SpecNested == Init /\ [][NextNested]_vars

\* ------------------------------------------------------------------ C31
\* Each transformation applied to the document read: one without a path to
\* the whole document, one with a path to the value at that path; the
\* outputs composed into one object, a later one over an earlier one.
RECURSIVE AppliedToCurrent(_, _, _)
AppliedToCurrent(transformations, doc, acc) ==
    IF transformations = <<>> THEN acc
    ELSE LET t == Head(transformations)
             out == IF t.path = "" THEN applyWhole(t.fn, ParseDocument(doc))
                    ELSE [EmptyObj EXCEPT ![t.path] = applyFn(t.fn, getValueAtPath(doc, t.path))]
             next == [k \in ObjKeys |-> IF out[k] # Absent THEN out[k] ELSE acc[k]]
         IN  AppliedToCurrent(Tail(transformations), doc, next)

\* Caller p's attempt reads a document and computes its patch.
Locates(p) ==
    /\ pc[p] \in {"optFindOne", "txRefetch"}
    /\ pc'[p] # pc[p]
    /\ document'[p] # NoDoc
    /\ "findOne" \in calls'[p]
    /\ result'[p] \notin {"null", "NotFoundDuringTransaction"}

\* C31: the patch of an attempt is the one computed from every
\* transformation applied to the document read: the whole document for a
\* transformation without a path, the stored value at the path for one with.
C31_TransformationsAppliedToCurrentDocument ==
    [][\A p \in Procs :
        Locates(p) =>
            LET expected == getSafeSetAndUnset(
                                AppliedToCurrent(op[p].transformations, document'[p], EmptyObj))
            IN  expected.err = "none" =>
                    /\ pc'[p] \in {"optFindOneAndUpdate", "txUpdateOne"}
                    /\ setAndUnset'[p] = expected]_vars

\* ------------------------------------------------------------------ C32
\* The stored form of a transform output: undefined removes the field.
StoredValue(v) == IF v = Undefined THEN Absent ELSE v

TransformedPathSet(ts) == {ts[i].path : i \in 1..Len(ts)}

\* The document d after every transformation of ts has been applied to d's
\* value at its path.
TransformedDoc(ts, d) ==
    [k \in DocKeys |->
        IF k \in TransformedPathSet(ts)
        THEN LET i == CHOOSE j \in 1..Len(ts) : ts[j].path = k
             IN  StoredValue(applyFn(ts[i].fn, getValueAtPath(d, k)))
        ELSE d[k]]

\* Caller p's transformOne succeeds on a document nobody has written since
\* p read it.
TransformSucceeds(p) ==
    /\ pc[p] = "transformAndUpdateDoc"
    /\ pc'[p] = "done"
    /\ result'[p] = "ok"
    /\ store[document[p]["_id"]] = document[p]

\* C32: after a successful transformOne with function f at path p on the
\* stored document d, without concurrent writers, the stored document has
\* f(d[p]) at p and d's value in every other field, and the read path
\* accepts it, so that a subsequent findOne returns exactly that document.
C32_TransformChangesOnlyItsPaths ==
    [][\A p \in Procs :
        TransformSucceeds(p) =>
            /\ store'[document[p]["_id"]] = TransformedDoc(op[p].transformations, document[p])
            /\ parseStored(schemas, store'[document[p]["_id"]]) = "none"
            /\ \A id \in DocIds : id # document[p]["_id"] => store'[id] = store[id]]_vars

C32_Witness ==
    \E p, q \in Procs :
        /\ pc[p] = "done" /\ op[p].kind = "transformOne" /\ result[p] = "ok"
        /\ op[p].transformations = <<TSetB, TIncA>>
        /\ store[1] = TransformedDoc(op[p].transformations, document[p])
        /\ store[1]["a"] = document[p]["a"] + 1
        /\ pc[q] = "done" /\ op[q].kind = "findOne" /\ result[q] = "ok"

\* ------------------------------------------------------------------ C33
RequiresExistence(filter, key) ==
    \E i \in 1..Len(filter) : filter[i].k = key /\ filter[i].v \in {OpExists, OpNeExists}

\* C33: the filter a non-upsert updateOne / updateMany hands to the
\* collection requires, with $exists: true, every proper ancestor of every
\* nested path of the update object.
C33_FilterRequiresAncestors ==
    \A p \in Procs :
        (pc[p] = "done" /\ calls[p] # {} /\ ~op[p].upsert) =>
            \A i \in 1..Len(sentUpdate[p]) :
                \A j \in 1..Len(PathParents(sentUpdate[p][i].k)) :
                    RequiresExistence(sentFilter[p], PathParents(sentUpdate[p][i].k)[j])

\* ------------------------------------------------------------------ C34
\* The schema has an optional, default-bearing or undefined-typed node.
RECURSIVE HasUndefinedNode(_)
HasUndefinedNode(schema) ==
    \/ schema.type \in {"ZodOptional", "ZodDefault", "ZodUndefined", "ZodLiteral(undefined)"}
    \/ \E i \in 1..Len(schema.kids) : HasUndefinedNode(schema.kids[i].schema)

\* C34: verifySchemaAndCheckIfUndefinedCanExist returns true exactly for the
\* schemas with an optional, default-bearing or undefined-typed node at any
\* depth, and the constructed facade has exactly the collections of such
\* schemas in collectionsWithOptionalFields.
C34_OptionalFieldsDetectedAtAnyDepth ==
    (facade.state = "constructed" /\ facade.by = "database.ts") =>
        \A c \in 1..Len(registered) :
            /\ verifySchemaAndCheckIfUndefinedCanExist(registered[c]).undefinedCanExist
                    <=> HasUndefinedNode(registered[c])
            /\ c \in facade.collectionsWithOptionalFields <=> HasUndefinedNode(registered[c])

\* ------------------------------------------------------------------ C35
Cleaned == split.fn = "removeExplicitUndefined"

\* C35: after removeExplicitUndefined(o) no object or array reachable from o
\* has an own key whose value is undefined, and every key that had a
\* defined value has it still.
C35_NoUndefinedLeftDefinedKept ==
    Cleaned =>
        \A path \in SplitPaths \ {<<>>} :
            /\ obj[path] # Undefined
            /\ split.input[path] \notin {Undefined, Absent} => obj[path] = split.input[path]

C35_Witness ==
    /\ Cleaned
    /\ split.input[<<>>] = IsObject
    /\ split.input[<<"x">>] = IsArray /\ split.input[<<"x", "y">>] = Undefined
    /\ split.input[<<"x", "x">>] = 6 /\ obj[<<"x", "x">>] = 6
    /\ split.input[<<"y">>] = Undefined
    /\ obj[<<"x", "y">>] = Absent /\ obj[<<"y">>] = Absent

\* ------------------------------------------------------------------ README.md: transformMany
\* transformMany(collection, query, transformations): it first awaits
\* checkTransactionSupport.
ManyTransformationLists == {<<TIncA>>, <<TBadA>>}

readmeTransformMany(p) ==
    /\ pc[p] = "idle"
    /\ op[p].kind = "none"
    /\ \E q \in {NoQuery, QUnknown}, ts \in ManyTransformationLists :
        op' = [op EXCEPT ![p] = [NoOp EXCEPT !.kind = "readmeTransformMany", !.query = q,
                                      !.transformations = ts,
                                      !.maxRetries = DefaultMaxRetries]]
    /\ pc' = [pc EXCEPT ![p] = "checkTransactionSupport"]
    /\ UNCHANGED <<sessVars, nestVars, ctorVars, schemas, splitVars, batchVars, store, attempt, document, setAndUnset, result, calls, caught, stale, txVars>>

\* The transactional branch: getVerifiedQuery, then startSession and, inside
\* the try block, find(verifiedQuery, { session }) and the loop that
\* collects the identities.
manyTxCollect(p) ==
    /\ pc[p] = "txFindOne"
    /\ IsManyTransactional(p)
    /\ LET vq == getVerifiedQuery(op[p].query)
       IN  IF vq.err # "none"
           THEN /\ Finish(p, vq.err)
                /\ UNCHANGED <<sessVars, documentIds, calls>>
           ELSE /\ SetSessions(useSession(startSession(Sess, p, "transformMany"), p))
                /\ calls' = [calls EXCEPT ![p] = @ \cup {"find"}]
                /\ documentIds' = [documentIds EXCEPT ![p] = collectDocumentIds(store, vq.q)]
                /\ pc' = [pc EXCEPT ![p] = "manyDocSession"]
                /\ UNCHANGED result
    /\ UNCHANGED <<nestVars, ctorVars, schemas, splitVars, outcomes, store, op, attempt, document, setAndUnset, caught, stale, txVars>>

\* The callback of docSession.withTransaction up to the call of transform:
\* findOne({ _id: docId }, { session: docSession }).  When the document is
\* gone the callback returns null, the finally block ends docSession and the
\* loop goes on.
manyCallback(p, S) ==
    LET id == FindFirst(store, IdFilter(Head(documentIds[p])))
    IN  /\ calls' = [calls EXCEPT ![p] = @ \cup {"findOne"}]
        /\ IF id = 0
           THEN /\ SetSessions(endSession(S, p))
                /\ documentIds' = [documentIds EXCEPT ![p] = Tail(@)]
                /\ pc' = [pc EXCEPT ![p] = "manyDocSession"]
                /\ UNCHANGED <<document, snapshot, stale, result>>
           ELSE /\ SetSessions(S)
                /\ document' = [document EXCEPT ![p] = store[id]]
                /\ snapshot' = [snapshot EXCEPT ![p] = store]
                /\ stale' = [stale EXCEPT ![p] = {}]
                /\ pc' = [pc EXCEPT ![p] = "txRefetch"]
                /\ UNCHANGED <<documentIds, result>>

\* for (const docId of documentIds): a docSession is started for the next
\* identity and its transaction begins; after the last identity the outer
\* finally block ends the session and transformMany returns.
manyNext(p) ==
    /\ pc[p] = "manyDocSession"
    /\ IsManyTransactional(p)
    /\ IF documentIds[p] = <<>>
       THEN /\ SetSessions(endSession(Sess, p))
            /\ Finish(p, "ok")
            /\ UNCHANGED <<documentIds, calls, document, snapshot, stale>>
       ELSE manyCallback(p, useSession(startSession(Sess, p, "docSession"), p))
    /\ UNCHANGED <<nestVars, ctorVars, schemas, splitVars, outcomes, store, op, attempt, setAndUnset, caught, transactionsSupported,
                   replicaSet, lock, probes>>

\* withTransaction runs the callback again after a write conflict.
manyLocate(p) ==
    /\ pc[p] = "manyFindOne"
    /\ IsManyTransactional(p)
    /\ manyCallback(p, useSession(Sess, p))
    /\ UNCHANGED <<nestVars, ctorVars, schemas, splitVars, outcomes, store, op, attempt, setAndUnset, caught, transactionsSupported,
                   replicaSet, lock, probes>>

\* The fallback branch: getVerifiedQuery, find(verifiedQuery) and the loop
\* that collects the identities.  No session is started.
manyOptCollect(p) ==
    /\ pc[p] = "optFindOne"
    /\ IsManyTransactional(p)
    /\ LET vq == getVerifiedQuery(op[p].query)
       IN  IF vq.err # "none"
           THEN /\ FinishBatch(p, vq.err)
                /\ UNCHANGED <<documentIds, calls, op>>
           ELSE /\ calls' = [calls EXCEPT ![p] = @ \cup {"find"}]
                /\ documentIds' = [documentIds EXCEPT ![p] = collectDocumentIds(store, vq.q)]
                /\ op' = [op EXCEPT ![p].kind = "readmeTransformManyOptimistic"]
                /\ pc' = [pc EXCEPT ![p] = "manyOptLoop"]
                /\ UNCHANGED result
    /\ UNCHANGED <<sessVars, nestVars, ctorVars, schemas, splitVars, outcomes, store, attempt, document, setAndUnset, caught, stale, txVars>>

\* for (const docId of documentIds) of the fallback branch: what
\* transformOneOptimistic returned or threw for the previous identity is
\* counted or caught, then transformOneOptimistic(collection, { _id: docId },
\* transformations) is called for the next identity, or the batch returns.
manyOptStep(p) ==
    /\ op[p].kind = "readmeTransformManyOptimistic"
    /\ pc[p] \in {"manyOptLoop", "done"}
    /\ LET outs == IF pc[p] = "done" THEN Append(outcomes[p], result[p]) ELSE outcomes[p]
           thrown == pc[p] = "done" /\ result[p] \notin {"ok", "null"}
       IN  /\ outcomes' = [outcomes EXCEPT ![p] = outs]
           /\ IF thrown /\ Rethrown(result[p])
              THEN /\ FinishBatch(p, result[p])
                   /\ UNCHANGED <<op, attempt>>
              ELSE IF Len(outs) = Len(documentIds[p])
              THEN /\ FinishBatch(p, "ok")
                   /\ UNCHANGED <<op, attempt>>
              ELSE /\ op' = [op EXCEPT ![p].query = IdFilter(documentIds[p][Len(outs) + 1])]
                   /\ attempt' = [attempt EXCEPT ![p] = 0]
                   /\ pc' = [pc EXCEPT ![p] = "optFindOne"]
                   /\ result' = [result EXCEPT ![p] = "none"]
    /\ UNCHANGED <<sessVars, nestVars, ctorVars, schemas, splitVars, documentIds, store, document, setAndUnset, calls, caught, stale, txVars>>

\* transformOne and transformMany of the README.md class on either
\* deployment, over a collection that holds several documents.
InitSessions ==
    /\ \E deployment \in BOOLEAN : InitOver(deployment, [id \in DocIds |-> InitialDoc(id)])
    /\ Constructed
    /\ schemas = flattenedSchemas
    /\ obj = EmptyTree
    /\ split = NoSplit

NextSessions ==
    \E p \in Procs :
        \/ readmeTransformOne(p)
        \/ readmeTransformMany(p)
        \/ checkTransactionSupport(p)
        \/ probeStartFails(p)
        \/ probeTransaction(p)
        \/ probeDrop(p)
        \/ probeEndSession(p)
        \/ optLocate(p)
        \/ optDelay(p)
        \/ optWrite(p)
        \/ txLocate(p)
        \/ txRefetch(p)
        \/ txUpdate(p)
        \/ txCommit(p)
        \/ manyTxCollect(p)
        \/ manyNext(p)
        \/ manyLocate(p)
        \/ manyOptCollect(p)
        \/ manyOptStep(p)

SpecSessions == InitSessions /\ [][NextSessions]_vars

\* ------------------------------------------------------------------ properties of the sessions
SessionIds == UNION {{<<p, i>> : i \in 1..Len(sessions[p])} : p \in Procs}
SessionAt(s) == sessions[s[1]][s[2]]
IsHeld(s) == \E i \in 1..Len(held[s[1]]) : held[s[1]][i] = s
HasReturned(p) == pc[p] \in {"done", "batchDone"} /\ op[p].kind # "readmeTransformManyOptimistic"

\* C36: every session started by transformOne, transformMany or the
\* capability probe is ended exactly once on every path: endSession has not
\* been called on a session the handler still holds, has been called once on
\* a session it has left behind, and a handler that has returned (a result,
\* null or an error) holds none; and a session is used by no invocation
\* other than the one that started it.
C36_SessionsEndedOnceAndNotShared ==
    /\ \A s \in SessionIds :
        /\ SessionAt(s).ended = (IF IsHeld(s) THEN 0 ELSE 1)
        /\ SessionAt(s).usedBy \subseteq {s[1]}
    /\ \A p \in Procs :
        /\ \A i \in 1..Len(held[p]) : held[p][i] \in SessionIds
        /\ (HasReturned(p) \/ pc[p] \in {"optFindOne", "optDelay", "optFindOneAndUpdate", "manyOptLoop"})
            => held[p] = <<>>

\* A transformMany that threw from the transaction of its first identity:
\* the batch's session and the docSession have been ended; and a
\* transformOne that committed and returned, its session ended.
C36_Witness ==
    \E p, q \in Procs :
        /\ op[p].kind = "readmeTransformMany"
        /\ pc[p] = "done"
        /\ result[p] \notin {"ok", "null", "none"}
        /\ \E i, j \in 1..Len(sessions[p]) :
            /\ sessions[p][i].site = "transformMany" /\ sessions[p][j].site = "docSession"
            /\ sessions[p][i].ended = 1 /\ sessions[p][j].ended = 1
            /\ sessions[p][j].usedBy = {p}
        /\ op[q].kind = "transformOne"
        /\ pc[q] = "done"
        /\ result[q] = "ok"
        /\ \E i \in 1..Len(sessions[q]) :
            sessions[q][i].site = "transformOne" /\ sessions[q][i].ended = 1

\* ------------------------------------------------------------------ termination of the optimistic transforms
\* updateOne(collection, { _id: 1 }, { b: 1 }) or { b: undefined } by another
\* caller: a writer that can change the document again and again.
updateOneB(p) ==
    /\ pc[p] = "idle"
    /\ \E u \in {USetB, UUnsetB} :
        LET su == PrepareUpdate(QById, u, FALSE)
        IN  /\ op' = [op EXCEPT ![p] = [NoOp EXCEPT !.kind = "updateOne", !.query = QById,
                                              !.update = u]]
            /\ su.err = "none"
            /\ calls' = [calls EXCEPT ![p] = {"updateOne"}]
            /\ WriteEffect(p, UpdateIn(store, "updateOne", QById, su, FALSE, 0))
            /\ Finish(p, "ok")
    /\ UNCHANGED <<sessVars, nestVars, ctorVars, schemas, splitVars, batchVars, attempt, document, setAndUnset, caught, txVars>>

\* transform of database.ts and transformOneOptimistic of README.md beside
\* writers that return and write again without end.
NextLive ==
    \E p \in Procs :
        \/ transformOne(p)
        \/ transformLocate(p)
        \/ transformWrite(p)
        \/ transformOneOptimistic(p)
        \/ optLocate(p)
        \/ optDelay(p)
        \/ optWrite(p)
        \/ updateOneB(p)
        \/ return(p)

\* The suspension points of the two retry loops.
InRetryLoop(p) ==
    pc[p] \in {"findOne", "findOneAndUpdate", "optFindOne", "optDelay", "optFindOneAndUpdate"}

LoopExits == {"findOne", "findOneAndUpdate", "optFindOne", "optDelay", "optFindOneAndUpdate", "done"}

\* A handler suspended in its loop is resumed: the steps of transformLocate,
\* transformWrite, optLocate, optDelay and optWrite are the steps that move
\* a caller from one suspension point of a loop to another or out of it.
LoopStep(p) ==
    /\ InRetryLoop(p)
    /\ \E next \in LoopExits \ {pc[p]} : pc' = [pc EXCEPT ![p] = next]

\* Every storage call a handler awaits is answered and every setTimeout
\* delay elapses; nothing obliges a caller to make a call, nor a writer to
\* stop.
SpecLive == Init /\ [][NextLive]_vars /\ \A p \in Procs : WF_pc(LoopStep(p))

\* ------------------------------------------------------------------ properties of the retry loops
\* C37: every optimistic transform terminates: while it is in its loop at
\* most maxRetries attempts have failed, so the attempt under way is at most
\* the (maxRetries + 1)-th, and it always comes to return a result or null
\* or to raise an error, whatever the other writers do.
C37_OptimisticTransformTerminates ==
    /\ [](\A p \in Procs : InRetryLoop(p) => attempt[p] <= op[p].maxRetries)
    /\ \A p \in Procs : InRetryLoop(p) ~> (pc[p] = "done")

\* A transform that gave up after maxRetries + 1 failed conditional writes
\* while the other caller was still writing.
C37_Witness ==
    \E p, q \in Procs :
        /\ op[p].kind = "transform"
        /\ pc[p] = "done"
        /\ result[p] = "ConcurrentModification"
        /\ attempt[p] = op[p].maxRetries + 1
        /\ op[p].maxRetries = MaxRetriesInput
        /\ op[q].kind = "updateOne"

\* ------------------------------------------------------------------ transform invocations among themselves
\* Callers that only run transform of database.ts: nothing else writes the
\* collection.
NextRace ==
    \E p \in Procs :
        \/ transformOne(p)
        \/ transformLocate(p)
        \/ transformWrite(p)

SpecRace == Init /\ [][NextRace]_vars

\* The other invocations that have committed.
CommittedOthers(p) == {q \in Procs \ {p} : IsTransform(q) /\ result[q] = "ok"}

\* C38: when at most maxRetries + 1 transform invocations run on a document
\* that nothing else writes, none exhausts its retries: an invocation never
\* has more failed conditional writes behind it than other invocations have
\* committed, so each failure answers to a commit of another invocation that
\* came after the failed attempt's read; and an invocation commits at most
\* once: the step in which its write takes effect is its last.
C38_NoExhaustionAmongBoundedInvocations ==
    /\ [](\A p \in Procs :
            IsTransform(p) =>
                /\ attempt[p] <= Cardinality(CommittedOthers(p))
                /\ NumProcs <= op[p].maxRetries + 1 => result[p] # "ConcurrentModification")
    /\ [][\A p \in Procs :
            (IsTransform(p) /\ pc'[p] # pc[p] /\ store' # store)
                => (result[p] = "none" /\ result'[p] = "ok" /\ pc'[p] = "done")]_vars

\* An invocation allowed one retry lost its first conditional write to the
\* other invocation's commit and committed with its second.
C38_Witness ==
    \E p \in Procs :
        /\ IsTransform(p)
        /\ ~op[p].nonAtomic
        /\ op[p].maxRetries = NumProcs - 1
        /\ attempt[p] = 1
        /\ result[p] = "ok"
        /\ CommittedOthers(p) # {}

\* ------------------------------------------------------------------ database.ts: getSafeSetAndUnset on a nested update
\* getSchemaAtPath(collection, key).parseAsync(value) for a value that may be
\* an object, on the nested collection: x is an optional object of two
\* numbers, the other paths are numbers.
parseTreeAtPath(path, value) ==
    IF path \notin DOMAIN nestedSchemas THEN "UnknownPath"
    ELSE IF nestedSchemas[path] = "ZodNumber"
    THEN (IF value[<<>>] >= 0 THEN "none" ELSE "ZodError")
    ELSE IF \/ value[<<>>] = Undefined
            \/ /\ value[<<>>] = IsObject
               /\ \A k \in SubKeys : At(value, <<k>>) >= 0
    THEN "none" ELSE "ZodError"

\* getSafeSetAndUnset(collection, data): ZongoUtil.getSetAndUnset(data), then
\* every key of $set is parsed with its value and every key of $unset with
\* undefined; the first rejection is thrown.
safeSetAndUnsetOf(data) ==
    LET r == getSetAndUnsetAt(data, "")
        set == [k \in KeySet(r.set) |-> Sub(r.set, k)]
        errs == [i \in 1..Len(TopKeys) |->
                    IF TopKeys[i] \in DOMAIN set
                    THEN parseTreeAtPath(TopKeys[i], set[TopKeys[i]]) ELSE "none"]
                \o [i \in 1..Len(TopKeys) |->
                    IF TopKeys[i] \in r.unset
                    THEN parseTreeAtPath(TopKeys[i], Scalar(Undefined)) ELSE "none"]
    IN  [err |-> FirstError(errs), data |-> r.set, set |-> set, unset |-> r.unset]

\* update() or transform hands its update object to getSafeSetAndUnset and
\* what is returned to the collection.
callGetSafeSetAndUnset(p) ==
    /\ split.fn = "none"
    /\ LET r == safeSetAndUnsetOf(obj)
       IN  /\ obj' = r.data
           /\ split' = IF r.err # "none"
                       THEN [fn |-> r.err, input |-> obj, set |-> <<>>, unset |-> {}]
                       ELSE [fn |-> "getSafeSetAndUnset", input |-> obj,
                             set |-> r.set, unset |-> r.unset]
    /\ UNCHANGED <<sessVars, nestVars, ctorVars, schemas, batchVars, store, pc, op, attempt, document, setAndUnset, result, calls,
                   caught, stale, txVars>>

NextSafeSplit == \E p \in Procs : callGetSafeSetAndUnset(p)

SpecSafeSplit == InitSplit /\ [][NextSafeSplit]_vars

\* ------------------------------------------------------------------ properties of the patch
\* s1 is a proper dotted prefix of s2.
IsAncestorPath(s1, s2) ==
    /\ Len(PathOf(s1)) < Len(PathOf(s2))
    /\ SubSeq(PathOf(s2), 1, Len(PathOf(s1))) = PathOf(s1)

\* C39: in every patch that update or transform sends to storage no path of
\* $set or $unset is a proper dotted prefix of another path of $set or
\* $unset.
C39_NoPathIsAncestorOfAnother ==
    split.fn = "getSafeSetAndUnset" =>
        \A s1, s2 \in DOMAIN split.set \cup split.unset : ~IsAncestorPath(s1, s2)

====
